---- MODULE Spec2Model ----
(***************************************************************************)
(* Polling client (AntigravityClient) driven by the session controller     *)
(* (SessionController) of the Antigravity quota monitor, and the process   *)
(* detector (ProcessPortDetector) behind detectPort().                     *)
(*                                                                         *)
(* JavaScript runs one callback at a time: a step of this model is one     *)
(* macrotask (a timer firing, a request or a discovery completing, a user  *)
(* command) together with the promise continuations it triggers.           *)
(***************************************************************************)
EXTENDS Naturals, Integers, Sequences, FiniteSets, Bags, TLC

\* ------------------------------------------------------------- constants
MAX_RETRY_COUNT == 3

\* ---------------------------------------------------------------- bounds
\* what is pending at any time: requests awaiting their response, retry
\* timers and discoveries, each counted with what its completion may start
MaxPending == 3

\* The client instances followed: the one client of a session. (initialize()
\* calls that overlap construct a client each; this specification starts an
\* initialize() only when none that may still construct a client is running.)
Clients == {1}

\* detectPort() results: [port, httpPort, csrfToken] of a discovered process
DetectionResults ==
    { [kind |-> "found", port |-> 1, httpPort |-> 3, csrfToken |-> "t1"],
      [kind |-> "found", port |-> 2, httpPort |-> 4, csrfToken |-> "t2"] }

\* detectPort() outcomes seen by its callers: a result, null, or an exception
DetectionOutcomes ==
    DetectionResults \cup
    { [kind |-> k, port |-> 0, httpPort |-> 0, csrfToken |-> ""] :
          k \in {"none", "threw"} }

\* Errors a doRequest() attempt rejects with, as the set of fragments that
\* String.includes finds in error.message; "code=EPROTO" stands for
\* error.code === "EPROTO", which is no part of the message.
ErrorMessages ==
    { {"connect", "ECONNREFUSED"},
      {"read", "ECONNRESET"},
      {"socket hang up"},
      {"Timeout"},
      {"write", "code=EPROTO"},
      {"SSL routines", "WRONG_VERSION_NUMBER"},
      {"HTTP 401", "not logged in"},
      {"Invalid code"} }

Includes(msg, sub) == sub \in msg

\* what req.on("error") and req.on("timeout") reject with when the connection
\* is refused, when it is reset (while reading, or before any response), and
\* when the request times out
TransportFailures ==
    { {"connect", "ECONNREFUSED"},
      {"read", "ECONNRESET"},
      {"socket hang up"},
      {"Timeout"} }

\* String.prototype.toLowerCase, on the fragments of the messages above
toLowerCase(msg) ==
    { CASE x = "WRONG_VERSION_NUMBER" -> "wrong_version_number"
        [] x = "ECONNREFUSED" -> "econnrefused"
        [] x = "ECONNRESET" -> "econnreset"
        [] x = "Timeout" -> "timeout"
        [] x = "SSL routines" -> "ssl routines"
        [] x = "HTTP 401" -> "http 401"
        [] x = "Invalid code" -> "invalid code"
        [] OTHER -> x : x \in msg }

\* who called initialize(): extension activation or the webview panel
Callers == {"activate", "webview"}

VARIABLES
    \* SessionController; of updateListeners, in the order registered,
    \* whether the listener throws when called and what it was last called
    \* with
    isInitialized, isReconnecting, cachedData, client, updateListeners,
    \* AntigravityClient, per instance
    retryCount, isRetrying, isFirstAttempt, pollingInterval, endpoint,
    \* the runtime: armed interval timers, pending retry timeouts, requests
    \* awaiting a response, detectPort() calls awaiting their result
    timers, retryTimers, inflight, initDetect, reconDetect,
    \* Webview.currentPanel
    panel,
    \* history: stopPolling() called on the client; failures and error
    \* subscriber invocations of the current run of consecutive failures;
    \* tryReconnect() returned at its guard; what the step leading here did
    stopCalled, streakFails, streakErrors, guardHit, lastStep,
    \* the environment: the port the monitored process listens on, 0 while
    \* nothing is assumed of it
    server,
    \* ProcessPortDetector with its platform strategy, and the call of
    \* detectProcessInfo() running on it
    detector,
    \* a call of one of the parsing functions: the function, its argument,
    \* and what it returned once it is done
    call,
    \* the operating system as the detector's commands see it: the processes
    \* listed, the listening sockets, how the probe of a port ends, the
    \* utilities there are
    os

vars == << isInitialized, isReconnecting, cachedData, client,
           updateListeners,
           retryCount, isRetrying, isFirstAttempt, pollingInterval, endpoint,
           timers, retryTimers, inflight, initDetect, reconDetect, panel,
           stopCalled, streakFails, streakErrors, guardHit, lastStep,
           server, detector, call, os >>

\* lastStep of a step that neither published a snapshot nor ended a
\* reconnection without a result
NoStep == [what |-> "other", port |-> 0]

\* The state as one record, so that a handler is the composition of the
\* methods it calls. Every handler starts with lastStep cleared.
State ==
    [ isInitialized |-> isInitialized, isReconnecting |-> isReconnecting,
      cachedData |-> cachedData, client |-> client,
      updateListeners |-> updateListeners,
      retryCount |-> retryCount, isRetrying |-> isRetrying,
      isFirstAttempt |-> isFirstAttempt, pollingInterval |-> pollingInterval,
      endpoint |-> endpoint, timers |-> timers, retryTimers |-> retryTimers,
      inflight |-> inflight, initDetect |-> initDetect,
      reconDetect |-> reconDetect, panel |-> panel,
      stopCalled |-> stopCalled, streakFails |-> streakFails,
      streakErrors |-> streakErrors, guardHit |-> guardHit,
      lastStep |-> NoStep, server |-> server ]

Commit(s) ==
    /\ isInitialized' = s.isInitialized
    /\ isReconnecting' = s.isReconnecting
    /\ cachedData' = s.cachedData
    /\ client' = s.client
    /\ updateListeners' = s.updateListeners
    /\ retryCount' = s.retryCount
    /\ isRetrying' = s.isRetrying
    /\ isFirstAttempt' = s.isFirstAttempt
    /\ pollingInterval' = s.pollingInterval
    /\ endpoint' = s.endpoint
    /\ timers' = s.timers
    /\ retryTimers' = s.retryTimers
    /\ inflight' = s.inflight
    /\ initDetect' = s.initDetect
    /\ reconDetect' = s.reconDetect
    /\ panel' = s.panel
    /\ stopCalled' = s.stopCalled
    /\ streakFails' = s.streakFails
    /\ streakErrors' = s.streakErrors
    /\ guardHit' = s.guardHit
    /\ lastStep' = s.lastStep
    /\ server' = s.server
    /\ detector' = detector
    /\ call' = call
    /\ os' = os

NoEndpoint == [port |-> 0, httpPort |-> 0, csrfToken |-> ""]

\* ------------------------------------------------------ AntigravityClient

\* new AntigravityClient(port, csrfToken, httpPort); detectPort() always
\* gives an httpPort, a number that may be 0, so httpPort ?? port is that
\* httpPort
NewClient(s, c, r) ==
    [s EXCEPT !.client = c,
              !.endpoint[c] = [port |-> r.port, httpPort |-> r.httpPort,
                               csrfToken |-> r.csrfToken],
              !.retryCount[c] = 0,
              !.isRetrying[c] = FALSE,
              !.isFirstAttempt[c] = TRUE,
              !.pollingInterval[c] = 0]

\* setPorts that keeps the retry counter
setPorts_keepsCount(s, c, r) ==
    [s EXCEPT !.endpoint[c].port = r.port,
              !.endpoint[c].httpPort = r.httpPort]

\* setPorts that keeps the fallback port the client has
setPorts_keepsHttpPort(s, c, r) ==
    [s EXCEPT !.endpoint[c].port = r.port,
              !.retryCount[c] = 0]

\* setPorts(connectPort, httpPort)
setPorts(s, c, r) ==
    [s EXCEPT !.endpoint[c].port = r.port,
              !.endpoint[c].httpPort = r.httpPort,
              !.retryCount[c] = 0]

\* setAuthInfo that keeps the token the client has
setAuthInfo_keepsToken(s, c, r) == s

\* setAuthInfo(_, csrfToken)
setAuthInfo(s, c, r) ==
    [s EXCEPT !.endpoint[c].csrfToken = r.csrfToken]

\* stopPolling(): clearInterval of the handle the client holds
stopPolling(s, c) ==
    IF s.pollingInterval[c] # 0
    THEN [s EXCEPT !.timers[c] = @ \ {s.pollingInterval[c]},
                   !.pollingInterval[c] = 0]
    ELSE s

\* a handle setInterval has not handed out among the armed ones
FreshTimer(s, c) ==
    CHOOSE h \in 1..(Cardinality(s.timers[c]) + 1) : h \notin s.timers[c]

\* startPolling, after its await: setInterval and keep the handle
armInterval(s, c) ==
    LET h == FreshTimer(s, c)
    IN [s EXCEPT !.timers[c] = @ \cup {h}, !.pollingInterval[c] = h]

\* makeGetUserStatusRequest(): makeRequest() is called with the port,
\* fallback port and token read at this moment and starts doRequest(true,
\* port).
Request(s, c, origin, caller) ==
    [client |-> c, origin |-> origin, caller |-> caller,
     port |-> s.endpoint[c].port, httpPort |-> s.endpoint[c].httpPort,
     csrfToken |-> s.endpoint[c].csrfToken, attempt |-> "https"]

\* the test of makeRequest()'s catch block on the error of the HTTPS attempt
isProtocolMismatch(msg) ==
    \/ Includes(msg, "code=EPROTO")
    \/ Includes(toLowerCase(msg), "wrong_version_number")

\* makeRequest() falling back to plain HTTP on every error of the HTTPS
\* attempt
makeRequest_fallsBackOnAnyError(f, msg) ==
    IF f.attempt = "https" /\ f.httpPort \in Nat
    THEN [kind |-> "fallback", request |-> [f EXCEPT !.attempt = "http"]]
    ELSE [kind |-> "throw", request |-> f]

\* makeRequest() of request f, the doRequest() it awaits rejecting with msg:
\* the catch block starts doRequest(false, httpPort) or rethrows; a rejection
\* of the plain-HTTP attempt is outside the try and rejects the request
makeRequest(f, msg) ==
    IF f.attempt = "https" /\ f.httpPort \in Nat /\ isProtocolMismatch(msg)
    THEN [kind |-> "fallback", request |-> [f EXCEPT !.attempt = "http"]]
    ELSE [kind |-> "throw", request |-> f]

\* the port the attempt under way of request f is sent to
targetPort(f) == IF f.attempt = "https" THEN f.port ELSE f.httpPort

\* doFetchQuota() up to its await: no status subscriber is ever registered,
\* so the request is all that happens
doFetchQuota(s, c, origin, caller) ==
    [s EXCEPT !.inflight = @ (+) SetToBag({Request(s, c, origin, caller)})]

\* quickRefresh()
quickRefresh(s, c, origin, caller) == doFetchQuota(s, c, origin, caller)

\* fetchQuota() that does not look at isRetrying
fetchQuota_unguarded(s, c, origin, caller) ==
    doFetchQuota(s, c, origin, caller)

\* fetchQuota(): skipped while a retry is pending
fetchQuota(s, c, origin, caller) ==
    IF s.isRetrying[c] THEN s ELSE doFetchQuota(s, c, origin, caller)

\* ------------------------------------------------------ SessionController

\* tryReconnect() without its guard
tryReconnect_unguarded(s) ==
    [s EXCEPT !.isReconnecting = TRUE, !.reconDetect = @ + 1]

\* tryReconnect() up to its await: the single-flight guard, then detectPort()
tryReconnect(s) ==
    IF s.isReconnecting
    THEN [s EXCEPT !.guardHit = TRUE]
    ELSE [s EXCEPT !.isReconnecting = TRUE, !.reconDetect = @ + 1]

\* tryReconnect() refreshing whatever detectPort() gave
afterDetectPort_refreshesAnyway(s, out) ==
    IF s.client # 0
    THEN quickRefresh(IF out.kind = "found"
                      THEN setAuthInfo(setPorts(s, s.client, out),
                                       s.client, out)
                      ELSE s,
                      s.client, "reconnect", "none")
    ELSE [s EXCEPT !.isReconnecting = FALSE]

\* tryReconnect() after its await of detectPort(): the rebind of the client
\* and the forced refresh, or nothing but the release of the guard
afterDetectPort(s, out) ==
    IF out.kind = "found" /\ s.client # 0
    THEN quickRefresh(setAuthInfo(setPorts(s, s.client, out), s.client, out),
                      s.client, "reconnect", "none")
    ELSE [s EXCEPT !.isReconnecting = FALSE]

\* The QuotaSnapshot values parseGetUserStatusResponse() returns: the one
\* the responses of this model give unless said otherwise, and two more
\* that differ in their plan and models.
Snapshots == {"snapshot", "snapshot A", "snapshot B"}

\* transformSnapshotToQuotaData(snapshot): the plan name and the models of
\* the snapshot, in the shape the views show
transformSnapshotToQuotaData(snapshot) ==
    CASE snapshot = "snapshot" -> "data"
      [] snapshot = "snapshot A" -> "data A"
      [] snapshot = "snapshot B" -> "data B"

\* a notifyListeners() without the try around the call of a listener: the
\* first listener that throws ends the forEach
notifyListeners_unguarded(s) ==
    IF s.cachedData = "null" THEN s
    ELSE LET throwing == { i \in DOMAIN s.updateListeners :
                               s.updateListeners[i].throws }
             last == IF throwing = {} THEN Len(s.updateListeners)
                     ELSE CHOOSE i \in throwing : \A j \in throwing : i <= j
         IN [s EXCEPT !.updateListeners =
                 [i \in DOMAIN @ |->
                      IF i <= last THEN [@[i] EXCEPT !.handed = s.cachedData]
                      ELSE @[i]]]

\* notifyListeners(): every listener is called with this.cachedData, what
\* a listener throws is caught
notifyListeners(s) ==
    IF s.cachedData = "null" THEN s
    ELSE [s EXCEPT !.updateListeners =
              [i \in DOMAIN @ |-> [@[i] EXCEPT !.handed = s.cachedData]]]

\* onDataUpdate(listener): the listener is registered and, if there is
\* data, called with it
onDataUpdate(s, throws) ==
    [s EXCEPT !.updateListeners =
         Append(@, [throws |-> throws,
                    handed |-> IF s.cachedData = "null" THEN "none"
                               ELSE s.cachedData])]

\* an error subscriber that leaves transport errors alone
onError_noReconnect(s, msg) ==
    IF Includes(msg, "quota info") \/ Includes(msg, "not logged in")
    THEN notifyListeners([s EXCEPT !.cachedData = "needsLogin"])
    ELSE s

\* the error subscriber initialize() registers
onError(s, msg) ==
    IF \/ Includes(msg, "ECONNREFUSED") \/ Includes(msg, "ETIMEDOUT")
       \/ Includes(msg, "socket hang up") \/ Includes(msg, "network")
    THEN tryReconnect(s)
    ELSE IF Includes(msg, "quota info") \/ Includes(msg, "not logged in")
         THEN notifyListeners([s EXCEPT !.cachedData = "needsLogin"])
         ELSE s

\* the snapshot subscriber initialize() registers, called with snapshot
updateCallback(s, snapshot) ==
    notifyListeners(
        [s EXCEPT !.cachedData = transformSnapshotToQuotaData(snapshot)])

\* the same, for the snapshot of a response nothing more is said of
onQuotaUpdate(s) == updateCallback(s, "snapshot")

\* fetchQuotaData() up to its await
fetchQuotaData(s) ==
    IF ~s.isInitialized THEN s
    ELSE IF s.cachedData = "null" /\ s.client # 0
         THEN quickRefresh(s, s.client, "manual", "none")
         ELSE s

\* what the caller of initialize() does with its result: the webview
\* fetches and posts the data, activation only reports a failure
afterInitialize(s, caller) ==
    IF caller = "webview" THEN fetchQuotaData(s) ELSE s

\* stop()
stop(s) == IF s.client # 0 THEN stopPolling(s, s.client) ELSE s

\* --------------------------------------- AntigravityClient, after the await

\* this.errorCallback(error)
errorCallback(s, c, msg) ==
    onError([s EXCEPT !.streakErrors[c] = @ + 1], msg)

\* the success path without the release of the retry flag
onFetchSuccess_keepsFlag(s, c) ==
    onQuotaUpdate([s EXCEPT !.retryCount[c] = 0,
                            !.isFirstAttempt[c] = FALSE])

\* doFetchQuota(), the request resolved and the response parsed
onFetchSuccess(s, c) ==
    onQuotaUpdate([s EXCEPT !.retryCount[c] = 0,
                            !.isFirstAttempt[c] = FALSE,
                            !.isRetrying[c] = FALSE])

\* the catch block comparing with <= instead of <
onFetchFailure_offByOne(s, c, msg) ==
    IF s.retryCount[c] <= MAX_RETRY_COUNT
    THEN [s EXCEPT !.retryCount[c] = @ + 1,
                   !.isRetrying[c] = TRUE,
                   !.retryTimers[c] = @ + 1]
    ELSE errorCallback([s EXCEPT !.isRetrying[c] = FALSE,
                                 !.retryCount[c] = 0], c, msg)

\* the catch block giving up one retry early
onFetchFailure_shortBudget(s, c, msg) ==
    IF s.retryCount[c] < MAX_RETRY_COUNT - 1
    THEN [s EXCEPT !.retryCount[c] = @ + 1,
                   !.isRetrying[c] = TRUE,
                   !.retryTimers[c] = @ + 1]
    ELSE errorCallback([s EXCEPT !.isRetrying[c] = FALSE,
                                 !.retryCount[c] = 0], c, msg)

\* the catch block halting the schedule once the budget is exhausted
onFetchFailure_stops(s, c, msg) ==
    IF s.retryCount[c] < MAX_RETRY_COUNT
    THEN [s EXCEPT !.retryCount[c] = @ + 1,
                   !.isRetrying[c] = TRUE,
                   !.retryTimers[c] = @ + 1]
    ELSE errorCallback(stopPolling([s EXCEPT !.isRetrying[c] = FALSE,
                                             !.retryCount[c] = 0], c), c, msg)

\* doFetchQuota(), the catch block
onFetchFailure(s, c, msg) ==
    IF s.retryCount[c] < MAX_RETRY_COUNT
    THEN [s EXCEPT !.retryCount[c] = @ + 1,
                   !.isRetrying[c] = TRUE,
                   !.retryTimers[c] = @ + 1]
    ELSE errorCallback([s EXCEPT !.isRetrying[c] = FALSE,
                                 !.retryCount[c] = 0], c, msg)

\* initialize() after startPolling() returned: quickRefresh on this.client
afterStartPolling(s, caller) == quickRefresh(s, s.client, "init", caller)

\* initialize() after its quickRefresh() returned
afterInitRefresh(s, caller) ==
    afterInitialize([s EXCEPT !.isInitialized = TRUE], caller)

\* startPolling(intervalMs), called by initialize() on the client it made
startPolling(s, c, caller) ==
    LET s1 == stopPolling(s, c)
    IN IF s1.isRetrying[c]
       THEN afterStartPolling(armInterval(s1, c), caller)
       ELSE doFetchQuota(s1, c, "start", caller)

\* what runs when the doFetchQuota() of request f has returned
Continuation(s, f) ==
    CASE f.origin = "start" ->
             afterStartPolling(armInterval(s, f.client), f.caller)
      [] f.origin = "init" -> afterInitRefresh(s, f.caller)
      [] f.origin = "reconnect" -> [s EXCEPT !.isReconnecting = FALSE]
      [] OTHER -> s

\* ---------------------------------------------------------------- actions

\* What the completion of request f leaves pending at most, f included: a
\* failed first fetch of startPolling() leaves a retry timer and is followed
\* by the quickRefresh() of initialize(), which in turn may leave a retry
\* timer and be followed by the refresh of the webview.
Weight(f) ==
    CASE f.origin = "start" -> 3
      [] f.origin = "init" -> 2
      [] OTHER -> 1

\* all that is pending in state s. No completion (a response, a failure, a
\* timer firing, a discovery returning) makes it grow: only a tick, a user
\* command and the webview's refresh do.
Pending(s) ==
    BagCardinality([f \in BagToSet(s.inflight) |->
                        CopiesIn(f, s.inflight) * Weight(f)])
    + BagCardinality([c \in {x \in DOMAIN s.retryTimers : s.retryTimers[x] > 0} |->
                          s.retryTimers[c]])
    + s.reconDetect
    + 3 * (s.initDetect["activate"] + s.initDetect["webview"])

\* the bound of the model, for each client followed, as a guard on the
\* state a step leads to: it holds back ticks and user commands, never a
\* completion
Bounded(s) == Pending(s) <= MaxPending * Cardinality(DOMAIN s.retryTimers)

\* nothing assumed of the operating system
NoOs == [table |-> << >>, sockets |-> << >>, probes |-> << >>,
         installed |-> {}, listTools |-> {}]

\* detectPort() has returned no result
NoInfo == [port |-> 0, connectPort |-> 0, httpPort |-> 0, csrfToken |-> ""]

\* new ProcessPortDetector() on a platform, the Windows strategy with
\* usePowerShell as the setting forcePowerShell gives it, the Unix strategy
\* with no port utility pinned. attempt, pc and result are the call of
\* detectProcessInfo() under way, info what detectPort() returns of it;
\* listings, delays, messages (error messages shown to the user in this
\* call), whichRuns (runs of `which` in the latest attempt), switches,
\* calls, lastAttempt and prev (the call before this one) are history.
NewDetector(platform, forcePowerShell) ==
    [platform |-> platform, usePowerShell |-> forcePowerShell,
     availablePortCommand |-> "null",
     pc |-> "idle", attempt |-> 0, result |-> "none",
     listings |-> 0, delays |-> 0, messages |-> 0, whichRuns |-> 0,
     switches |-> 0, calls |-> 0, info |-> NoInfo,
     prev |-> [result |-> "none", info |-> NoInfo],
     lastAttempt |-> [error |-> {}, record |-> FALSE, installed |-> {},
                      ports |-> FALSE, probe |-> FALSE]]

\* no parsing function is under observation
NoCall == [fn |-> "none", arg |-> << >>, ret |-> << >>, done |-> FALSE]

\* the session after activate(), with C the clients it may come to create
SessionOf(C) ==
    /\ isInitialized = FALSE
    /\ isReconnecting = FALSE
    /\ cachedData = "null"
    /\ client = 0
    /\ updateListeners = << >>
    /\ retryCount = [c \in C |-> 0]
    /\ isRetrying = [c \in C |-> FALSE]
    /\ isFirstAttempt = [c \in C |-> TRUE]
    /\ pollingInterval = [c \in C |-> 0]
    /\ endpoint = [c \in C |-> NoEndpoint]
    /\ timers = [c \in C |-> {}]
    /\ retryTimers = [c \in C |-> 0]
    /\ inflight = EmptyBag
    /\ initDetect = [k \in Callers |-> IF k = "activate" THEN 1 ELSE 0]
    /\ reconDetect = 0
    /\ panel = FALSE
    /\ stopCalled = [c \in C |-> FALSE]
    /\ streakFails = [c \in C |-> 0]
    /\ streakErrors = [c \in C |-> 0]
    /\ guardHit = FALSE
    /\ lastStep = NoStep
    /\ server = 0

\* activate() has run: the controller is constructed and the initialize()
\* that activation starts is awaiting detectPort()
InitSession == SessionOf(Clients)

\* The session after activation. What the detector does inside detectPort()
\* is followed in SpecDetect; here detectPort() is its outcome.
Init ==
    /\ InitSession
    /\ detector = NewDetector("Linux", TRUE)
    /\ call = NoCall
    /\ os = NoOs

\* initialize(context) up to its await
initialize(s, caller) ==
    IF s.isInitialized
    THEN afterInitialize(s, caller)
    ELSE [s EXCEPT !.initDetect[caller] = @ + 1]

\* the command antigravity.showQuota with no panel open: the panel is
\* created and Webview._startPolling() calls initialize()
ShowQuota ==
    /\ ~panel
    /\ isInitialized \/ client + initDetect["activate"] + initDetect["webview"] < Cardinality(Clients)
    /\ LET s1 == initialize([State EXCEPT !.panel = TRUE], "webview")
       IN \E s2 \in {s1} : Bounded(s2) /\ Commit(s2)

\* detectPort() of an initialize() call returns (or throws)
InitDetected(caller, out) ==
    /\ initDetect[caller] > 0
    /\ LET s0 == [State EXCEPT !.initDetect[caller] = @ - 1]
           s1 == IF out.kind = "found"
                 THEN startPolling(NewClient(s0, s0.client + 1, out),
                                   s0.client + 1, caller)
                 ELSE afterInitialize(s0, caller)
       IN \E s2 \in {s1} : Bounded(s2) /\ Commit(s2)

\* the repeating timer of client c fires
Tick(c) ==
    /\ timers[c] # {}
    /\ LET s1 == fetchQuota(State, c, "tick", "none")
       IN \E s2 \in {s1} : Bounded(s2) /\ Commit(s2)

\* a retry timer whose callback leaves isRetrying set
RetryFire_keepsFlag(c) ==
    /\ retryTimers[c] > 0
    /\ LET s0 == [State EXCEPT !.retryTimers[c] = @ - 1]
           s1 == fetchQuota(s0, c, "retry", "none")
       IN \E s2 \in {s1} : Bounded(s2) /\ Commit(s2)

\* a single-shot retry timer of client c fires
RetryFire(c) ==
    /\ retryTimers[c] > 0
    /\ LET s0 == [State EXCEPT !.retryTimers[c] = @ - 1,
                               !.isRetrying[c] = FALSE]
           s1 == fetchQuota(s0, c, "retry", "none")
       IN \E s2 \in {s1} : Bounded(s2) /\ Commit(s2)

\* request f is answered with a well-formed, accepted response
FetchSucceeds(f) ==
    /\ BagIn(f, inflight)
    /\ LET s0 == [State EXCEPT !.inflight = @ (-) SetToBag({f}),
                               !.streakFails[f.client] = 0,
                               !.streakErrors[f.client] = 0,
                               !.lastStep = [what |-> "published",
                                             port |-> f.port]]
           s1 == Continuation(onFetchSuccess(s0, f.client), f)
       IN \E s2 \in {s1} : Bounded(s2) /\ Commit(s2)

\* the HTTPS attempt of request f fails with the protocol mismatch msg: the
\* request goes on with its plain-HTTP attempt
HttpFallback(f, msg) ==
    /\ BagIn(f, inflight)
    /\ makeRequest(f, msg).kind = "fallback"
    /\ LET f2 == makeRequest(f, msg).request
           s1 == [State EXCEPT
                      !.inflight = (@ (-) SetToBag({f})) (+) SetToBag({f2})]
       IN \E s2 \in {s1} : Bounded(s2) /\ Commit(s2)

\* the catch block of doFetchQuota() for request f and the error msg, in
\* a step recorded as step
Caught(f, msg, step) ==
    /\ BagIn(f, inflight)
    /\ LET c == f.client
           ended == streakErrors[c] > 0
           s0 == [State EXCEPT !.inflight = @ (-) SetToBag({f}),
                               !.streakFails[c] = IF ended THEN 1 ELSE @ + 1,
                               !.streakErrors[c] = IF ended THEN 0 ELSE @,
                               !.lastStep = step]
           s1 == Continuation(onFetchFailure(s0, c, msg), f)
       IN \E s2 \in {s1} : Bounded(s2) /\ Commit(s2)

\* request f fails with message msg
FetchFails(f, msg) ==
    /\ makeRequest(f, msg).kind = "throw"
    /\ Caught(f, msg, NoStep)

\* The code field of a response body, as the JavaScript value JSON.parse
\* gives: undefined when the field is not there, null, a number, a string.
StatusCodes ==
    { [type |-> "undefined", text |-> ""], [type |-> "null", text |-> ""] }
        \cup [type : {"number"}, text : {"0", "1", "16"}]
        \cup [type : {"string"},
              text : {"0", "OK", "Ok", "ok", "success", "SUCCESS",
                      "Success", "error", "16", ""}]

\* the bodies of 200 responses: the code and the message beside it
Responses == [code : StatusCodes, message : {"denied"}]

\* const okValues = [0, "0", "OK", "Ok", "ok", "success", "SUCCESS"]
okValues ==
    { [type |-> "number", text |-> "0"] }
        \cup [type : {"string"},
              text : {"0", "OK", "Ok", "ok", "success", "SUCCESS"}]

\* a getInvalidCodeInfo() that compares the code without regard to case
getInvalidCodeInfo_anyCase(response) ==
    IF \/ response.code.type \in {"undefined", "null"}
       \/ response.code \in okValues
       \/ response.code = [type |-> "string", text |-> "Success"]
    THEN [invalid |-> FALSE, code |-> response.code, message |-> ""]
    ELSE [invalid |-> TRUE, code |-> response.code,
          message |-> response.message]

\* getInvalidCodeInfo(response): null (invalid false here) when the code is
\* undefined or null or one of okValues, else the code and the message
getInvalidCodeInfo(response) ==
    IF response.code.type \in {"undefined", "null"}
    THEN [invalid |-> FALSE, code |-> response.code, message |-> ""]
    ELSE IF response.code \in okValues
         THEN [invalid |-> FALSE, code |-> response.code, message |-> ""]
         ELSE [invalid |-> TRUE, code |-> response.code,
               message |-> response.message]

\* new Error(`Invalid code ${invalid.code}: ${invalid.message}`)
invalidCodeError(invalid) ==
    {"Invalid code", invalid.code.text, invalid.message}

\* the response to request f arrives with status 200 and a body that
\* parses: doFetchQuota() goes on after its await
Responds(f, response) ==
    /\ BagIn(f, inflight)
    /\ LET invalid == getInvalidCodeInfo(response)
       IN IF invalid.invalid
          THEN Caught(f, invalidCodeError(invalid),
                      [what |-> "invalid code", port |-> f.port])
          ELSE FetchSucceeds(f)

\* the webview's 5 s interval, while a panel is open
WebviewPoll ==
    /\ panel
    /\ LET s1 == fetchQuotaData(State)
       IN \E s2 \in {s1} : Bounded(s2) /\ Commit(s2)

\* the panel is closed: Webview.dispose() calls stop()
ClosePanel ==
    /\ panel
    /\ LET s0 == [State EXCEPT !.panel = FALSE]
           s1 == stop(s0)
       IN \E s2 \in {IF client # 0 THEN [s1 EXCEPT !.stopCalled[client] = TRUE]
                     ELSE s1} : Commit(s2)

\* tryReconnect() after detectPort() returned (or threw)
ReconDetected(out) ==
    /\ reconDetect > 0
    /\ LET s0 == [State EXCEPT !.reconDetect = @ - 1,
                               !.lastStep = IF out.kind = "found" THEN @
                                            ELSE [what |-> "no rediscovery",
                                                  port |-> 0]]
           s1 == IF out.kind = "found" /\ s0.client # 0
                 THEN afterDetectPort(
                          [s0 EXCEPT !.streakFails[s0.client] = 0,
                                     !.streakErrors[s0.client] = 0], out)
                 ELSE afterDetectPort(s0, out)
       IN \E s2 \in {s1} : Bounded(s2) /\ Commit(s2)

Next ==
    \/ ShowQuota
    \/ \E k \in Callers, out \in DetectionOutcomes : InitDetected(k, out)
    \/ \E c \in Clients : Tick(c)
    \/ \E c \in Clients : RetryFire(c)
    \/ \E f \in BagToSet(inflight) : FetchSucceeds(f)
    \/ \E f \in BagToSet(inflight), msg \in ErrorMessages : FetchFails(f, msg)
    \/ WebviewPoll
    \/ ClosePanel
    \/ \E out \in DetectionOutcomes : ReconDetected(out)

\* The monitored process answering TLS on its secure port: no request meets
\* the protocol mismatch.
Spec == Init /\ [][Next]_vars

\* The same with a process that may answer plain HTTP on the secure port.
NextFallback ==
    \/ Next
    \/ \E f \in BagToSet(inflight), msg \in ErrorMessages : HttpFallback(f, msg)

SpecFallback == Init /\ [][NextFallback]_vars

\* The monitored process up and answering every request with status 200,
\* and no command of the user: what varies is the body of the responses.
NextResponse ==
    \/ \E k \in Callers, out \in DetectionOutcomes : InitDetected(k, out)
    \/ \E c \in Clients : Tick(c)
    \/ \E c \in Clients : RetryFire(c)
    \/ \E f \in BagToSet(inflight), response \in Responses :
           Responds(f, response)

SpecResponse == Init /\ [][NextResponse]_vars

\* ------------------------------------------------- publishing a snapshot

\* listeners registered with onDataUpdate()
MaxListeners == 2

\* What the callback registered with onQuotaUpdate() may throw. The callback
\* initialize() registers throws nothing of its listeners, notifyListeners()
\* catching it; {} is the callback returning.
SubscriberErrors == { {"TypeError"} }

\* doFetchQuota() after its await, the response accepted and parsed into
\* snapshot: the three assignments, then this.updateCallback(snapshot),
\* all inside the try, so what the callback throws is caught by the catch
\* block of doFetchQuota()
publish(s, c, snapshot, thrown) ==
    LET s1 == [s EXCEPT !.retryCount[c] = 0,
                        !.isFirstAttempt[c] = FALSE,
                        !.isRetrying[c] = FALSE]
    IN IF thrown = {} THEN updateCallback(s1, snapshot)
       ELSE onFetchFailure(s1, c, thrown)

\* request f is answered with an accepted response that parses into
\* snapshot, and the callback called with it returns or throws
Resolves(f, snapshot, thrown) ==
    /\ BagIn(f, inflight)
    /\ LET c == f.client
           s0 == [State EXCEPT
                      !.inflight = @ (-) SetToBag({f}),
                      !.streakFails[c] = 0,
                      !.streakErrors[c] = 0,
                      !.lastStep = [what |-> IF thrown = {} THEN "published"
                                             ELSE "subscriber threw",
                                    port |-> f.port]]
           s1 == Continuation(publish(s0, c, snapshot, thrown), f)
       IN \E s2 \in {s1} : Bounded(s2) /\ Commit(s2)

\* a view registers a listener (the status bar does so when it is
\* constructed)
Subscribes(throws) ==
    /\ Len(updateListeners) < MaxListeners
    /\ Commit(onDataUpdate(State, throws))

\* The monitored process up and answering every request, with a snapshot
\* or with status 401 while the user is not logged in; views register
\* their listeners.
NextPublish ==
    \/ \E k \in Callers, out \in DetectionOutcomes : InitDetected(k, out)
    \/ \E c \in Clients : Tick(c)
    \/ \E c \in Clients : RetryFire(c)
    \/ \E throws \in BOOLEAN : Subscribes(throws)
    \/ \E f \in BagToSet(inflight), snapshot \in Snapshots,
           thrown \in SubscriberErrors \cup {{}} :
           Resolves(f, snapshot, thrown)
    \/ \E f \in BagToSet(inflight) :
           FetchFails(f, {"HTTP 401", "not logged in"})

SpecPublish == Init /\ [][NextPublish]_vars

\* ------------------------------------------------ a process that is stable

\* what detectPort() returns for the process listening on port p
Discovered(p) == CHOOSE r \in DetectionResults : r.port = p

\* no restart of the process is to come
Final == server # 0 /\ \A r \in DetectionResults : r.port <= server

\* from here on the process listens on port p: it answers every request
\* sent there, and discovery finds it
Settle(p) ==
    /\ server = 0
    /\ Commit([State EXCEPT !.server = p])

\* the process restarts with a new port and token
Restart ==
    /\ server # 0
    /\ \E r \in DetectionResults :
           r.port > server /\ Commit([State EXCEPT !.server = r.port])

\* request f reaches the process, or finds nobody listening on its port
Answered(f) ==
    /\ server # 0
    /\ IF f.port = server
       THEN FetchSucceeds(f)
       ELSE FetchFails(f, {"connect", "ECONNREFUSED"})

\* detectPort() of an initialize() call finds the process
Detected(caller) ==
    server # 0 /\ InitDetected(caller, Discovered(server))

\* detectPort() of a reconnection finds the process
Rediscovered == server # 0 /\ ReconDetected(Discovered(server))

\* the timers of client c
TimerFires(c) == server # 0 /\ (Tick(c) \/ RetryFire(c))

\* the user, with the process stable
UserActs == server # 0 /\ (ShowQuota \/ WebviewPoll \/ ClosePanel)

NextLive ==
    \/ server = 0 /\ Next
    \/ \E r \in DetectionResults : Settle(r.port)
    \/ Restart
    \/ UserActs
    \/ \E k \in Callers : Detected(k)
    \/ \E c \in Clients : TimerFires(c)
    \/ \E f \in BagToSet(inflight) : Answered(f)
    \/ Rediscovered

\* the requests of one origin sent to one port
AnsweredOf(origin, p) ==
    \E f \in BagToSet(inflight) :
        f.origin = origin /\ f.port = p /\ Answered(f)

\* The event loop runs every timer that is due and every completion that
\* has arrived; every request is answered or refused and every discovery
\* returns, within their timeouts.
Fairness ==
    /\ \A c \in Clients : WF_vars(TimerFires(c))
    /\ \A origin \in {"start", "tick", "retry", "init", "manual", "reconnect"},
          r \in DetectionResults : WF_vars(AnsweredOf(origin, r.port))
    /\ WF_vars(\E k \in Callers : Detected(k))
    /\ WF_vars(Rediscovered)

SpecLive == Init /\ [][NextLive]_vars /\ Fairness

\* ---------------------------------------------------- ProcessPortDetector

\* detectProcessInfo(maxRetries = 3, retryDelay = 2000), as detectPort()
\* calls it
maxRetries == 3

\* calls of detectProcessInfo() on one detector, one after the other
MaxCalls == 2

\* PlatformDetector.getPlatformName()
Platforms == {"Windows", "macOS", "Linux"}

\* What execAsync of the listing command rejects with, as the fragments
\* String.includes finds in the message: the shell not knowing the command
\* (cmd.exe in English and in Chinese, "zh: not an internal or external
\* command" standing for the Chinese text; sh), and any other failure, a
\* timeout included.
ListingErrors ==
    { {"is not recognized"},
      {"zh: not an internal or external command"},
      {"command", "not found"},
      {"Command failed"} }

\* errorMessages.processNotFound, of the Windows and of the Unix strategy
processNotFound == {"language_server process", "not found"}

\* the elements of a sequence, the largest and the smallest of a set of
\* numbers
Range(seq) == { seq[i] : i \in DOMAIN seq }
Max(S) == CHOOSE x \in S : \A y \in S : y <= x
Min(S) == CHOOSE x \in S : \A y \in S : x <= y

\* const commands = ["lsof", "ss", "netstat"], in the order probed
commands == << "lsof", "ss", "netstat" >>

\* What an attempt meets: the error of the listing command ({} when it
\* ran), whether parseProcessInfo() found a record, the port utilities the
\* shell finds (looked at only once a record is there), whether the port
\* command run for the process lists listening ports, whether
\* findWorkingPort() found one that answers.
AttemptOutcomes ==
    { o \in [error : ListingErrors \cup {{}}, record : BOOLEAN,
             installed : SUBSET Range(commands),
             ports : BOOLEAN, probe : BOOLEAN] :
          /\ o.record => o.error = {}
          /\ ~o.record => o.installed = {}
          /\ o.ports => o.record
          /\ o.probe => o.ports }

\* the for statement after attempt++: the next attempt, or return null
forLoop(d) ==
    IF d.attempt <= maxRetries
    THEN [d EXCEPT !.pc = "try"]
    ELSE [d EXCEPT !.pc = "idle", !.result = "null"]

\* the test of the catch block on the message of the error
isToolMissing(msg) ==
    \/ Includes(msg, "not found")
    \/ Includes(msg, "is not recognized")
    \/ Includes(msg, "zh: not an internal or external command")

\* a catch block that lets the errors it does not know escape
catchBlock_rethrows(d, msg) ==
    IF isToolMissing(msg)
    THEN IF d.platform = "Windows" /\ ~d.usePowerShell
         THEN forLoop([d EXCEPT !.usePowerShell = TRUE,
                                !.switches = @ + 1,
                                !.attempt = (@ - 1) + 1])
         ELSE IF d.attempt < maxRetries
              THEN [d EXCEPT !.pc = "delay"]
              ELSE forLoop([d EXCEPT !.attempt = @ + 1])
    ELSE [d EXCEPT !.pc = "idle", !.result = "threw"]

\* a catch block that switches the tool without attempt--
catchBlock_consumes(d, msg) ==
    IF isToolMissing(msg) /\ d.platform = "Windows" /\ ~d.usePowerShell
    THEN forLoop([d EXCEPT !.usePowerShell = TRUE,
                           !.switches = @ + 1,
                           !.attempt = @ + 1])
    ELSE IF d.attempt < maxRetries
         THEN [d EXCEPT !.pc = "delay"]
         ELSE forLoop([d EXCEPT !.attempt = @ + 1])

\* a catch block that waits the delay after the last attempt as well
catchBlock_alwaysDelays(d, msg) ==
    IF isToolMissing(msg) /\ d.platform = "Windows" /\ ~d.usePowerShell
    THEN forLoop([d EXCEPT !.usePowerShell = TRUE,
                           !.switches = @ + 1,
                           !.attempt = (@ - 1) + 1])
    ELSE [d EXCEPT !.pc = "delay"]

\* a catch block that switches from PowerShell to WMIC
catchBlock_demotes(d, msg) ==
    IF isToolMissing(msg) /\ d.platform = "Windows" /\ d.usePowerShell
    THEN forLoop([d EXCEPT !.usePowerShell = FALSE,
                           !.switches = @ + 1,
                           !.attempt = (@ - 1) + 1])
    ELSE IF d.attempt < maxRetries
         THEN [d EXCEPT !.pc = "delay"]
         ELSE forLoop([d EXCEPT !.attempt = @ + 1])

\* The catch block with what follows it. On Windows, with WMIC in use and a
\* message that says not found or not recognized: setUsePowerShell(true),
\* attempt--, continue, so the loop's attempt++ gives the same attempt and
\* no delay is waited. Otherwise the delay if an attempt is left, and the
\* loop's attempt++.
catchBlock(d, msg) ==
    IF isToolMissing(msg) /\ d.platform = "Windows" /\ ~d.usePowerShell
    THEN forLoop([d EXCEPT !.usePowerShell = TRUE,
                           !.switches = @ + 1,
                           !.attempt = (@ - 1) + 1])
    ELSE IF d.attempt < maxRetries
         THEN [d EXCEPT !.pc = "delay"]
         ELSE forLoop([d EXCEPT !.attempt = @ + 1])

\* an ensurePortCommandAvailable() that goes through all of commands and
\* keeps the last one found
ensurePortCommandAvailable_pinsLast(d, installed) ==
    IF d.platform = "Windows" \/ d.availablePortCommand # "null"
    THEN [d |-> [d EXCEPT !.whichRuns = 0], threw |-> FALSE]
    ELSE LET found == { i \in DOMAIN commands : commands[i] \in installed }
         IN IF found # {}
            THEN [d |-> [d EXCEPT !.availablePortCommand =
                                      commands[Max(found)],
                                  !.whichRuns = Len(commands)],
                  threw |-> FALSE]
            ELSE [d |-> [d EXCEPT !.whichRuns = Len(commands),
                                  !.messages = @ + 1],
                  threw |-> TRUE]

\* an ensurePortCommandAvailable() that, with a command pinned already,
\* looks again and pins the last one found
ensurePortCommandAvailable_looksAgain(d, installed) ==
    IF d.platform = "Windows"
    THEN [d |-> [d EXCEPT !.whichRuns = 0], threw |-> FALSE]
    ELSE LET found == { i \in DOMAIN commands : commands[i] \in installed }
             pick == IF d.availablePortCommand = "null" THEN Min(found)
                     ELSE Max(found)
         IN IF found # {}
            THEN [d |-> [d EXCEPT !.availablePortCommand = commands[pick],
                                  !.whichRuns = pick],
                  threw |-> FALSE]
            ELSE [d |-> [d EXCEPT !.whichRuns = Len(commands),
                                  !.messages = @ + 1],
                  threw |-> TRUE]

\* ensurePortCommandAvailable(), with installed the commands `which` finds:
\* nothing on Windows; on Unix nothing once a command is pinned, else
\* commandExists() for lsof, ss, netstat in turn until one exists, which is
\* pinned; with none, showErrorMessage() and throw.
ensurePortCommandAvailable(d, installed) ==
    IF d.platform = "Windows" \/ d.availablePortCommand # "null"
    THEN [d |-> [d EXCEPT !.whichRuns = 0], threw |-> FALSE]
    ELSE LET found == { i \in DOMAIN commands : commands[i] \in installed }
         IN IF found # {}
            THEN [d |-> [d EXCEPT !.availablePortCommand =
                                      commands[Min(found)],
                                  !.whichRuns = Min(found)],
                  threw |-> FALSE]
            ELSE [d |-> [d EXCEPT !.whichRuns = Len(commands),
                                  !.messages = @ + 1],
                  threw |-> TRUE]

\* the utility getPortListCommand() builds its command with: netstat.exe
\* on Windows, the pinned one on Unix
getPortListCommand(d) ==
    IF d.platform = "Windows" THEN "netstat" ELSE d.availablePortCommand

\* an attempt of d can meet o: a port command lists ports only if it ran,
\* that is if ensurePortCommandAvailable() did not throw and the utility of
\* the command is there
Meets(d, o) ==
    o.ports =>
        LET e == ensurePortCommandAvailable(d, o.installed)
        IN ~e.threw /\ getPortListCommand(e.d) \in o.installed

\* the try block of an attempt that meets o: the listing command, the
\* record, the listening ports (getProcessListeningPorts() gives [] for
\* every failure, that of ensurePortCommandAvailable() included), the
\* working port; return the result or throw
tryBlock(d, o) ==
    LET d1 == [d EXCEPT !.listings = @ + 1, !.lastAttempt = o,
                        !.whichRuns = 0]
        d2 == ensurePortCommandAvailable(d1, o.installed).d
    IN IF o.error # {} THEN catchBlock(d1, o.error)
       ELSE IF ~o.record THEN catchBlock(d1, processNotFound)
       ELSE IF ~o.ports
            THEN catchBlock(d2, {"Process is not listening on any ports"})
       ELSE IF ~o.probe
            THEN catchBlock(d2, {"Unable to find a working API port"})
       ELSE [d2 EXCEPT !.pc = "idle", !.result = "record"]

\* the rest of the state, which the detector does not touch
StaysSession ==
    UNCHANGED << isInitialized, isReconnecting, cachedData, client,
                 updateListeners, retryCount, isRetrying, isFirstAttempt, pollingInterval,
                 endpoint, timers, retryTimers, inflight, initDetect,
                 reconDetect, panel, stopCalled, streakFails, streakErrors,
                 guardHit, lastStep, server >>

\* detectPort() calls detectProcessInfo(): the loop starts with attempt 1
DetectCall ==
    /\ detector.pc = "idle"
    /\ detector.calls < MaxCalls
    /\ detector' = forLoop([detector EXCEPT !.attempt = 1,
                                            !.prev = [result |-> detector.result,
                                                      info |-> detector.info],
                                            !.info = NoInfo,
                                            !.result = "none",
                                            !.listings = 0,
                                            !.delays = 0,
                                            !.messages = 0,
                                            !.calls = @ + 1])
    /\ StaysSession /\ UNCHANGED << call, os >>

\* an attempt runs and meets o
Attempt(o) ==
    /\ detector.pc = "try"
    /\ Meets(detector, o)
    /\ detector' = tryBlock(detector, o)
    /\ StaysSession /\ UNCHANGED << call, os >>

\* the retryDelay after a failed attempt has passed
DelayElapsed ==
    /\ detector.pc = "delay"
    /\ detector' = forLoop([detector EXCEPT !.delays = @ + 1,
                                            !.attempt = @ + 1])
    /\ StaysSession /\ UNCHANGED << call, os >>

InitDetect ==
    /\ InitSession
    /\ \E platform \in Platforms, forcePowerShell \in BOOLEAN :
           detector = NewDetector(platform, forcePowerShell)
    /\ call = NoCall
    /\ os = NoOs

NextDetect ==
    \/ DetectCall
    \/ \E o \in AttemptOutcomes : Attempt(o)
    \/ DelayElapsed

SpecDetect == InitDetect /\ [][NextDetect]_vars

\* execAsync is given a timeout of 15 s and the probes of findWorkingPort()
\* one of their own, so an attempt that has started comes to its end; the
\* timer of the delay fires.
FairnessDetect ==
    /\ WF_vars(\E o \in AttemptOutcomes : Attempt(o))
    /\ WF_vars(DelayElapsed)

SpecDetectLive == InitDetect /\ [][NextDetect]_vars /\ FairnessDetect

\* ------------------------------------------------------- platform strategy

\* process.pid, the pid of the extension host that runs this code
OwnPid == 50

\* processes in a process listing, lines in a port listing
MaxProcs == 3
MaxLines == 3

\* What a process shows of itself in a listing: its parent, whether its
\* command line is one of the application (--app_data_dir antigravity, or
\* a path with /antigravity/), the value of --csrf_token and of
\* --extension_server_port ("" when the flag is not there).
ProcAttrs ==
    [ppid : {OwnPid, 1}, app : BOOLEAN, token : {"", "abc-123"},
     port : {"", "5050"}]

\* the processes the listing command selects by name, in the order the OS
\* reports them, the i-th with pid 100 * i
Tables ==
    { [i \in DOMAIN a |-> [pid |-> 100 * i, ppid |-> a[i].ppid,
                           app |-> a[i].app, token |-> a[i].token,
                           port |-> a[i].port]] :
          a \in UNION { [1..n -> ProcAttrs] : n \in 0..MaxProcs } }

\* the listing tools: ps on macOS and Linux, Get-CimInstance piped to
\* ConvertTo-Json and wmic /format:list on Windows
Strategies == {"Unix", "PowerShell", "WMIC"}

\* getProcessListCommand(), run on a table: the lines of ps, the JSON of
\* ConvertTo-Json (nothing for no process, an object for one, an array for
\* more), the blocks of wmic
getProcessListCommand(strategy, table) ==
    [format |-> CASE strategy = "Unix" -> "ps"
                  [] strategy = "PowerShell" -> "json"
                  [] strategy = "WMIC" -> "list",
     items |-> table]

\* parseInt(s, 10) of the digits the port pattern captured
parseInt(s) == CASE s = "5050" -> 5050 [] s = "6060" -> 6060 [] s = "" -> 0

\* null, as a record of the same shape
NoRecord == [pid |-> 0, extensionPort |-> 0, csrfToken |-> ""]

\* isAntigravityProcess(commandLine)
isAntigravityProcess(p) == p.app

\* tokenMatch: --csrf_token followed by hexadecimal digits and dashes
tokenMatch(p) == p.token # ""

\* { pid, extensionPort: portMatch ? parseInt(portMatch[1], 10) : 0,
\*   csrfToken: tokenMatch[1] }
processInfo(p) ==
    [pid |-> p.pid,
     extensionPort |-> IF p.port # "" THEN parseInt(p.port) ELSE 0,
     csrfToken |-> p.token]

\* a Unix parseProcessInfo() that returns candidates[0]
unixParseProcessInfo_takesFirst(lines) ==
    LET candidates ==
            SelectSeq(lines,
                      LAMBDA p : tokenMatch(p) /\ isAntigravityProcess(p))
    IN IF candidates = << >> THEN NoRecord ELSE processInfo(candidates[1])

\* UnixProcessDetector.parseProcessInfo(stdout): the lines with a token and
\* a command line of the application are the candidates; the first
\* candidate whose ppid is process.pid, or else the first candidate
unixParseProcessInfo(lines) ==
    LET candidates ==
            SelectSeq(lines,
                      LAMBDA p : tokenMatch(p) /\ isAntigravityProcess(p))
        children == SelectSeq(candidates, LAMBDA c : c.ppid = OwnPid)
    IN IF candidates = << >> THEN NoRecord
       ELSE IF children # << >> THEN processInfo(children[1])
       ELSE processInfo(candidates[1])

\* the rest of the JSON branch, on the one object it has selected
fromData(data) ==
    IF ~tokenMatch(data) THEN NoRecord ELSE processInfo(data)

\* the loop over the blocks of the flat text: the first block of the
\* application that has a token
fromBlocks(blocks) ==
    LET valid ==
            SelectSeq(blocks,
                      LAMBDA p : isAntigravityProcess(p) /\ tokenMatch(p))
    IN IF valid = << >> THEN NoRecord ELSE processInfo(valid[1])

\* WindowsProcessDetector.parseProcessInfo(stdout). With usePowerShell, or
\* a text that starts with { or [, JSON.parse: of an array the first
\* element of the application, of an object that object; null if it is not
\* of the application or has no token. When JSON.parse throws (an empty
\* text or one that is not JSON) the text is read as blocks. The texts of
\* this model that start with { or [ are those JSON.parse accepts: the
\* output of ConvertTo-Json for at least one process.
windowsParseProcessInfo(usePowerShell, stdout) ==
    LET items == stdout.items
        isJson == stdout.format = "json" /\ items # << >>
        blocks == IF stdout.format = "list" THEN items ELSE << >>
    IN IF (usePowerShell \/ isJson) /\ isJson
       THEN IF Len(items) > 1
            THEN LET antigravityProcesses ==
                         SelectSeq(items, LAMBDA p : isAntigravityProcess(p))
                 IN IF antigravityProcesses = << >> THEN NoRecord
                    ELSE fromData(antigravityProcesses[1])
            ELSE IF ~isAntigravityProcess(items[1]) THEN NoRecord
                 ELSE fromData(items[1])
       ELSE fromBlocks(blocks)

\* platformStrategy.parseProcessInfo(stdout)
parseProcessInfo(strategy, stdout) ==
    IF strategy = "Unix" THEN unixParseProcessInfo(stdout.items)
    ELSE windowsParseProcessInfo(strategy = "PowerShell", stdout)

\* the rest of the state, which a parsing function does not touch
StaysDetection == StaysSession /\ UNCHANGED << detector, os >>

\* the call under observation returns ret
Returns(ret) ==
    /\ ~call.done
    /\ call' = [call EXCEPT !.ret = ret, !.done = TRUE]
    /\ StaysDetection

\* parseProcessInfo() on the output of the listing command
ParseProcessInfo ==
    /\ call.fn = "parseProcessInfo"
    /\ Returns(parseProcessInfo(call.arg.strategy,
                                getProcessListCommand(call.arg.strategy,
                                                      call.arg.table)))

ProcessInfoCalls ==
    { [fn |-> "parseProcessInfo", arg |-> [strategy |-> s, table |-> tb],
       ret |-> << >>, done |-> FALSE] : s \in Strategies, tb \in Tables }

\* the port numbers of the listings
PortNumbers == {7, 10, 33}

\* A line of a port listing: the local address, the port and the state of
\* the socket. lsof prints "TCP 127.0.0.1:7 (LISTEN)", ss
\* "LISTEN 0 128 127.0.0.1:7 0.0.0.0:*", netstat
\* "tcp 0 0 127.0.0.1:7 0.0.0.0:* LISTEN 100/name", netstat.exe
\* "TCP 127.0.0.1:7 0.0.0.0:0 LISTENING 100"; all four are run with the
\* option that prints addresses as numbers.
SocketLines ==
    [addr : {"127.0.0.1", "10.0.0.5"}, port : PortNumbers,
     state : {"LISTEN", "ESTABLISHED"}]

Layouts == {"lsof", "ss", "netstat", "netstat.exe"}

PortListings ==
    [layout : Layouts,
     lines : UNION { [1..n -> SocketLines] : n \in 0..MaxLines }]

\* the four patterns of UnixProcessDetector.parseListeningPorts() on a line
\* of a layout: (LISTEN) in parentheses is lsof's, LISTEN before the
\* address is ss's, LISTEN after the address is lsof's and netstat's
lsofMatch(layout, l) ==
    layout = "lsof" /\ l.addr = "127.0.0.1" /\ l.state = "LISTEN"
ssMatch(layout, l) ==
    layout = "ss" /\ l.addr \in {"127.0.0.1", "*"} /\ l.state = "LISTEN"
netstatMatch(layout, l) ==
    layout \in {"lsof", "netstat"} /\ l.addr = "127.0.0.1"
        /\ l.state = "LISTEN"
lhMatch(layout, l) ==
    layout \in {"lsof", "netstat"} /\ l.addr = "localhost"
        /\ l.state = "LISTEN"

\* portRegex of WindowsProcessDetector.parseListeningPorts()
portRegex(layout, l) ==
    /\ layout = "netstat.exe"
    /\ l.addr \in {"127.0.0.1", "0.0.0.0", "[::]", "[::1]"}
    /\ l.state = "LISTEN"

\* if (!ports.includes(p)) ports.push(p), for the ports of rest in turn
RECURSIVE pushNew(_, _)
pushNew(ports, rest) ==
    IF rest = << >> THEN ports
    ELSE pushNew(IF Head(rest) \in Range(ports) THEN ports
                 ELSE Append(ports, Head(rest)),
                 Tail(rest))

\* the decimal digits of a number below 100
digits(n) == IF n < 10 THEN << n >> ELSE << n \div 10, n % 10 >>

\* a before b as strings
stringLess(a, b) ==
    LET x == digits(a)
        y == digits(b)
    IN \/ x[1] < y[1]
       \/ x[1] = y[1] /\ Len(x) < Len(y)
       \/ x[1] = y[1] /\ Len(x) = Len(y) /\ Len(x) = 2 /\ x[2] < y[2]

\* ports.sort() without a compare function, which orders numbers as strings
RECURSIVE sort_asStrings(_)
sort_asStrings(ports) ==
    IF ports = << >> THEN << >>
    ELSE LET rest == sort_asStrings(Tail(ports))
             k == Cardinality({ i \in DOMAIN rest :
                                   ~stringLess(Head(ports), rest[i]) })
         IN SubSeq(rest, 1, k) \o << Head(ports) >>
                \o SubSeq(rest, k + 1, Len(rest))

\* ports.sort((a, b) => a - b)
RECURSIVE sort(_)
sort(ports) ==
    IF ports = << >> THEN << >>
    ELSE LET rest == sort(Tail(ports))
             k == Cardinality({ i \in DOMAIN rest : rest[i] <= Head(ports) })
         IN SubSeq(rest, 1, k) \o << Head(ports) >>
                \o SubSeq(rest, k + 1, Len(rest))

\* the ports the lines of seq carry
portsOf(seq) == [i \in DOMAIN seq |-> seq[i].port]

\* the lines of stdout in which the strategy finds a port: one of the four
\* patterns on Unix, portRegex on Windows
matches(stdout) ==
    SelectSeq(stdout.lines,
              LAMBDA l :
                  IF stdout.layout = "netstat.exe"
                  THEN portRegex(stdout.layout, l)
                  ELSE \/ lsofMatch(stdout.layout, l)
                       \/ ssMatch(stdout.layout, l)
                       \/ netstatMatch(stdout.layout, l)
                       \/ lhMatch(stdout.layout, l))

\* a parseListeningPorts() that ends with ports.sort()
parseListeningPorts_sortsStrings(stdout) ==
    sort_asStrings(pushNew(<< >>, portsOf(matches(stdout))))

\* platformStrategy.parseListeningPorts(stdout): the port of every line
\* that matches, once each, sorted
parseListeningPorts(stdout) ==
    sort(pushNew(<< >>, portsOf(matches(stdout))))

\* parseListeningPorts() on the output of the port command
ParseListeningPorts ==
    /\ call.fn = "parseListeningPorts"
    /\ Returns(parseListeningPorts(call.arg))

ListeningPortsCalls ==
    { [fn |-> "parseListeningPorts", arg |-> a, ret |-> << >>,
       done |-> FALSE] : a \in PortListings }

\* what the probe of a port ends with: a response with its status, an
\* error of the connection, the timeout of 2000 ms
ProbeOutcomes == {"200", "404", "error", "timeout"}

\* testPortConnectivity(port, csrfToken) when the probes end as in probes
testPortConnectivity(probes, port) == probes[port] = "200"

\* the loop of findWorkingPort(): the ports in turn, each probe awaited
\* before the next; the first that answers is returned, null (port 0 here)
\* when the list ends. probed is the probes made so far.
RECURSIVE forOf(_, _, _)
forOf(ports, probes, probed) ==
    IF ports = << >> THEN [port |-> 0, probed |-> probed]
    ELSE IF testPortConnectivity(probes, Head(ports))
         THEN [port |-> Head(ports), probed |-> Append(probed, Head(ports))]
         ELSE forOf(Tail(ports), probes, Append(probed, Head(ports)))

\* a findWorkingPort() that probes all the ports at once and returns the
\* first that answered
findWorkingPort_probesAll(ports, probes) ==
    LET working == { i \in DOMAIN ports :
                        testPortConnectivity(probes, ports[i]) }
    IN [port |-> IF working = {} THEN 0 ELSE ports[Min(working)],
        probed |-> ports]

\* findWorkingPort(ports, csrfToken)
findWorkingPort(ports, probes) == forOf(ports, probes, << >>)

\* findWorkingPort() on the list getProcessListeningPorts() returned
FindWorkingPort ==
    /\ call.fn = "findWorkingPort"
    /\ Returns(findWorkingPort(call.arg.ports, call.arg.probes))

\* the lists parseListeningPorts() returns, with every way the probes end
WorkingPortCalls ==
    { [fn |-> "findWorkingPort",
       arg |-> [ports |-> ports, probes |-> pr],
       ret |-> << >>, done |-> FALSE] :
          ports \in { parseListeningPorts(l) :
                          l \in { x \in PortListings : x.layout = "lsof" } },
          pr \in [PortNumbers -> ProbeOutcomes] }

\* Times are counted in days of 86400000 ms. new Date(8640000000000000),
\* the time parseModelQuota() takes for a reset that never comes, is day
\* 100000000; Now is Date.now().
MAX_DATE == 100000000
Now == 20000

\* quotaInfo of a model entry: remainingFraction, absent or a number (in
\* quarters), and resetTime, absent, "infinite", a text Date cannot read,
\* or the text of a day
QuotaInfos ==
    [remainingFraction : { [has |-> FALSE, quarters |-> 0] }
                             \cup [has : {TRUE}, quarters : {0, 1, 4}],
     resetTime : { [kind |-> k, day |-> 0] :
                       k \in {"absent", "infinite", "unreadable"} }
                     \cup [kind : {"date"}, day : {Now - 1, Now, Now + 7}]]

\* formatTimeUntilReset(ms), as far as the days: "Expired", or the days
\* and what is left
formatTimeUntilReset(days) ==
    IF days <= 0 THEN [text |-> "Expired", days |-> 0]
    ELSE [text |-> "from now", days |-> days]

\* a parseModelQuota() that takes a model whose reset is over for exhausted
parseModelQuota_expiredIsExhausted(quotaInfo) ==
    LET rf == quotaInfo.remainingFraction
        rt == quotaInfo.resetTime
        never == rt.kind \in {"absent", "infinite"}
        resetTime == IF never THEN MAX_DATE
                     ELSE IF rt.kind = "unreadable" THEN Now + 1
                     ELSE rt.day
        timeUntilReset == IF never THEN MAX_DATE ELSE resetTime - Now
    IN [remainingPercentage |-> IF rf.has THEN rf.quarters * 25 ELSE 0,
        hasPercentage |-> rf.has,
        isExhausted |-> ~rf.has \/ rf.quarters = 0 \/ timeUntilReset <= 0,
        resetTime |-> resetTime,
        timeUntilReset |-> timeUntilReset,
        timeUntilResetFormatted |-> formatTimeUntilReset(timeUntilReset)]

\* parseModelQuota(config) on config.quotaInfo, with remainingPercentage
\* undefined as hasPercentage false
parseModelQuota(quotaInfo) ==
    LET rf == quotaInfo.remainingFraction
        rt == quotaInfo.resetTime
        never == rt.kind \in {"absent", "infinite"}
        resetTime == IF never THEN MAX_DATE
                     ELSE IF rt.kind = "unreadable" THEN Now + 1
                     ELSE rt.day
        timeUntilReset == IF never THEN MAX_DATE ELSE resetTime - Now
    IN [remainingPercentage |-> IF rf.has THEN rf.quarters * 25 ELSE 0,
        hasPercentage |-> rf.has,
        isExhausted |-> ~rf.has \/ rf.quarters = 0,
        resetTime |-> resetTime,
        timeUntilReset |-> timeUntilReset,
        timeUntilResetFormatted |-> formatTimeUntilReset(timeUntilReset)]

\* parseModelQuota() on a model entry of the response
ParseModelQuota ==
    /\ call.fn = "parseModelQuota"
    /\ Returns(parseModelQuota(call.arg))

ModelQuotaCalls ==
    { [fn |-> "parseModelQuota", arg |-> q, ret |-> << >>,
       done |-> FALSE] : q \in QuotaInfos }

InitParse ==
    /\ InitSession
    /\ detector = NewDetector("Linux", TRUE)
    /\ \/ call \in ProcessInfoCalls
       \/ call \in ListeningPortsCalls
       \/ call \in WorkingPortCalls
       \/ call \in ModelQuotaCalls
    /\ os = NoOs

NextParse ==
    \/ ParseProcessInfo
    \/ ParseListeningPorts
    \/ FindWorkingPort
    \/ ParseModelQuota

SpecParse == InitParse /\ [][NextParse]_vars

\* ------------------------------------------------- discovery on a machine

\* the strategy PlatformDetector.getStrategy() gave, in the mode it is in
Strategy(d) ==
    IF d.platform # "Windows" THEN "Unix"
    ELSE IF d.usePowerShell THEN "PowerShell" ELSE "WMIC"

\* the program the process listing command starts
ListTool(strategy) ==
    CASE strategy = "Unix" -> "ps"
      [] strategy = "PowerShell" -> "powershell"
      [] strategy = "WMIC" -> "wmic"

\* 10 to the k, and the number of decimal digits of n
Pow10(k) == CASE k = 0 -> 1 [] k = 1 -> 10 [] k = 2 -> 100 [] k = 3 -> 1000
              [] k = 4 -> 10000
Width(n) == IF n < 10 THEN 1 ELSE IF n < 100 THEN 2
            ELSE IF n < 1000 THEN 3 ELSE 4

\* the decimal digits of m occur in those of n, as grep and findstr see it
hasDigits(n, m) == \E k \in 0..3 : (n \div Pow10(k)) % Pow10(Width(m)) = m

\* Whether the port command of a utility prints the line of socket s when
\* asked for pid: lsof -Pan -p ${pid} -i selects the process;
\* grep "pid=${pid}," on the output of ss matches the number between "pid="
\* and the comma; grep ${pid} on the output of netstat and findstr "${pid}"
\* on that of netstat.exe match the digits anywhere in the line, of which
\* the port and the owner's pid vary here.
selects(tool, pid, s) ==
    IF tool \in {"lsof", "ss"} THEN s.pid = pid
    ELSE hasDigits(s.pid, pid) \/ hasDigits(s.port, pid)

\* stdout of the command getPortListCommand(pid) builds, on the sockets of
\* the machine
portCommandOutput(d, pid, sockets) ==
    LET printed == SelectSeq(sockets,
                             LAMBDA s : selects(getPortListCommand(d), pid, s))
    IN [layout |-> IF d.platform = "Windows" THEN "netstat.exe"
                   ELSE getPortListCommand(d),
        lines |-> [i \in DOMAIN printed |->
                       [addr |-> "127.0.0.1", port |-> printed[i].port,
                        state |-> "LISTEN"]]]

\* getProcessListeningPorts(pid) on a machine: [] when
\* ensurePortCommandAvailable() throws or the command cannot be run
getProcessListeningPorts(d, pid, machine) ==
    LET e == ensurePortCommandAvailable(d, machine.installed)
    IN IF e.threw \/ getPortListCommand(e.d) \notin machine.installed
       THEN << >>
       ELSE parseListeningPorts(portCommandOutput(e.d, pid, machine.sockets))

\* The try block of detectProcessInfo() on a machine: what the attempt
\* meets, and the { extensionPort, connectPort, csrfToken } it would return
tryOn(d, machine) ==
    LET strategy == Strategy(d)
        ran == ListTool(strategy) \in machine.listTools
        rec == IF ran
               THEN parseProcessInfo(strategy,
                        getProcessListCommand(strategy, machine.table))
               ELSE NoRecord
        listeningPorts == IF rec = NoRecord THEN << >>
                          ELSE getProcessListeningPorts(d, rec.pid, machine)
        connectPort == findWorkingPort(listeningPorts, machine.probes).port
    IN [meets |-> [error |-> IF ran THEN {} ELSE {"is not recognized"},
                   record |-> rec # NoRecord,
                   installed |-> IF rec # NoRecord THEN machine.installed
                                 ELSE {},
                   ports |-> listeningPorts # << >>,
                   probe |-> connectPort # 0],
        selected |-> rec,
        listeningPorts |-> listeningPorts,
        returns |-> [extensionPort |-> rec.extensionPort,
                     connectPort |-> connectPort,
                     csrfToken |-> rec.csrfToken]]

\* PortDetector.detectPort() of a process info that is not null
detectPort(info) ==
    [port |-> info.connectPort,
     connectPort |-> info.connectPort,
     httpPort |-> info.extensionPort,
     csrfToken |-> info.csrfToken]

\* an attempt runs on the machine
AttemptOn ==
    /\ detector.pc = "try"
    /\ os # NoOs
    /\ LET t == tryOn(detector, os)
           d == tryBlock(detector, t.meets)
       IN detector' = [d EXCEPT !.info = IF d.result = "record"
                                          THEN detectPort(t.returns)
                                          ELSE NoInfo]
    /\ StaysSession /\ UNCHANGED << call, os >>

\* The language-server processes of a machine, the i-th with pid 100 * i,
\* all with a command line of the application and a port flag, some
\* without a token.
Token(i) == IF i = 1 THEN "abc-123" ELSE "def-456"
Port(i) == IF i = 1 THEN "5050" ELSE "6060"
MachineTables ==
    UNION { { [i \in 1..n |-> [pid |-> 100 * i, ppid |-> 1, app |-> TRUE,
                               token |-> IF has[i] THEN Token(i) ELSE "",
                               port |-> Port(i)]] :
                  has \in [1..n -> BOOLEAN] } : n \in 0..2 }

\* The listening sockets of a machine: one of each language server, and
\* one of a process that is not a language server and whose pid, 1100,
\* has the digits of 100.
MachineSockets ==
    { SelectSeq(<< [pid |-> 1100, port |-> 7], [pid |-> 100, port |-> 10],
                   [pid |-> 200, port |-> 33] >>,
                LAMBDA s : s \in keep) :
          keep \in SUBSET { [pid |-> 1100, port |-> 7],
                            [pid |-> 100, port |-> 10],
                            [pid |-> 200, port |-> 33] } }

\* how the probe of each port ends
MachineProbes == [PortNumbers -> {"200", "error"}]

\* A machine of a platform, which stays as it is while the detector runs:
\* Windows has netstat.exe and either, both or none of PowerShell and WMIC;
\* macOS and Linux have ps and the port utilities from some point of
\* commands on, or none.
Machines(platform) ==
    [table : MachineTables, sockets : MachineSockets, probes : MachineProbes,
     installed : IF platform = "Windows" THEN {{"netstat"}}
                 ELSE {{"lsof", "ss", "netstat"}, {"ss", "netstat"},
                       {"netstat"}, {}},
     listTools : IF platform = "Windows" THEN SUBSET {"powershell", "wmic"}
                 ELSE {{"ps"}}]

InitDiscover ==
    /\ InitSession
    /\ \E platform \in Platforms, forcePowerShell \in BOOLEAN :
           /\ platform # "Windows" => forcePowerShell
           /\ detector = NewDetector(platform, forcePowerShell)
           /\ os \in Machines(platform)
    /\ call = NoCall

NextDiscover ==
    \/ DetectCall
    \/ AttemptOn
    \/ DelayElapsed

SpecDiscover == InitDiscover /\ [][NextDiscover]_vars

\* ------------------------------------------- a record with no declared port

\* What detectProcessInfo() returns of two processes: one started without
\* --extension_server_port, for which parseProcessInfo() gives
\* extensionPort 0, and one that declares its port.
ProcessInfos ==
    { [extensionPort |-> 0, connectPort |-> 1, csrfToken |-> "t1"],
      [extensionPort |-> 4, connectPort |-> 2, csrfToken |-> "t2"] }

\* detectPort() as initialize() and tryReconnect() see it: the result of
\* detectPort(info) for a process info, or null
UndeclaredOutcomes ==
    { [kind |-> "found", port |-> detectPort(info).port,
       httpPort |-> detectPort(info).httpPort,
       csrfToken |-> detectPort(info).csrfToken] : info \in ProcessInfos }
        \cup { [kind |-> "none", port |-> 0, httpPort |-> 0, csrfToken |-> ""] }

\* The session with these processes, one of which may answer plain HTTP on
\* its secure port; no command of the user.
NextUndeclared ==
    \/ \E k \in Callers, out \in UndeclaredOutcomes : InitDetected(k, out)
    \/ \E c \in Clients : Tick(c)
    \/ \E c \in Clients : RetryFire(c)
    \/ \E f \in BagToSet(inflight) : FetchSucceeds(f)
    \/ \E f \in BagToSet(inflight), msg \in ErrorMessages : FetchFails(f, msg)
    \/ \E f \in BagToSet(inflight), msg \in ErrorMessages : HttpFallback(f, msg)
    \/ \E out \in UndeclaredOutcomes : ReconDetected(out)

SpecUndeclared == Init /\ [][NextUndeclared]_vars

\* ------------------------------------------- initialize() calls that overlap

\* The clients of a session in which the panel may be opened while the
\* initialize() of activation is still awaiting detectPort().
BothClients == {1, 2}

\* antigravity.showQuota with no panel open, at any moment: createOrShow()
\* looks at Webview.currentPanel only
ShowQuotaEarly ==
    /\ ~panel
    /\ isInitialized \/ client + initDetect["activate"] + initDetect["webview"] < Cardinality(BothClients)
    /\ LET s1 == initialize([State EXCEPT !.panel = TRUE], "webview")
       IN \E s2 \in {s1} : Bounded(s2) /\ Commit(s2)

InitOverlap ==
    /\ SessionOf(BothClients)
    /\ detector = NewDetector("Linux", TRUE)
    /\ call = NoCall
    /\ os = NoOs

\* The session with a process that answers every request.
NextOverlap ==
    \/ ShowQuotaEarly
    \/ \E k \in Callers, out \in DetectionOutcomes : InitDetected(k, out)
    \/ \E c \in BothClients : Tick(c)
    \/ \E f \in BagToSet(inflight) : FetchSucceeds(f)
    \/ WebviewPoll
    \/ ClosePanel

SpecOverlap == InitOverlap /\ [][NextOverlap]_vars

\* ----------------------------------------------------------------- claims

\* requests of client c awaiting their response
InFlightOf(c) ==
    BagCardinality([r \in {x \in BagToSet(inflight) : x.client = c}
                       |-> CopiesIn(r, inflight)])

\* this step issued a request of client c from one of the given origins
Issued(c, origins) ==
    \E r \in BagToSet(inflight') :
        /\ r.client = c
        /\ r.origin \in origins
        /\ CopiesIn(r, inflight') > CopiesIn(r, inflight)

AllOrigins == {"start", "tick", "retry", "init", "manual", "reconnect"}
QuickRefreshOrigins == {"init", "manual", "reconnect"}

\* C1 (as stated): after exactly MAX_RETRY_COUNT consecutive failures that
\* began at retryCount = 0, the error subscriber has fired once and
\* retryCount is 0.
C1_ErrorAfterMaxRetryCountFailures ==
    \A c \in Clients :
        streakFails[c] = MAX_RETRY_COUNT
            => streakErrors[c] = 1 /\ retryCount[c] = 0

\* C1 (amended): in a run of consecutive failures that began at
\* retryCount = 0, with no success and no rebind in between, the first
\* MAX_RETRY_COUNT failures each schedule a retry (retryCount counts them, the
\* error subscriber is not invoked); the failure number MAX_RETRY_COUNT + 1
\* invokes the error subscriber, for the first time, and leaves retryCount 0.
C1_ErrorAfterBudgetPlusOneFailures ==
    \A c \in Clients :
        /\ streakFails[c] <= MAX_RETRY_COUNT + 1
        /\ streakFails[c] <= MAX_RETRY_COUNT
               => streakErrors[c] = 0 /\ retryCount[c] = streakFails[c]
        /\ streakFails[c] = MAX_RETRY_COUNT + 1
               => streakErrors[c] = 1 /\ retryCount[c] = 0

C1_Witness ==
    \E c \in Clients :
        streakFails[c] = MAX_RETRY_COUNT + 1 /\ streakErrors[c] = 1

\* a request of client c failed in this step
Failed(c) == streakFails'[c] # streakFails[c] /\ streakFails'[c] > 0

\* C2: a failed fetch never clears the repeating timer, in the retry branch
\* and in the exhaustion branch alike: an armed timer stays armed and the
\* handle the client holds stays the same. An armed timer is cleared by
\* stop() only.
C2_FailureLeavesTimerArmed ==
    [][ \A c \in Clients :
            /\ \/ timers[c] \subseteq timers'[c]
               \/ panel /\ ~panel' /\ c = client
            /\ Failed(c) /\ pollingInterval[c] # 0 =>
                   /\ pollingInterval'[c] = pollingInterval[c]
                   /\ timers'[c] = timers[c] ]_vars

C2_Witness ==
    \E c \in Clients :
        /\ streakErrors[c] = 1
        /\ pollingInterval[c] # 0
        /\ pollingInterval[c] \in timers[c]

\* C3 (as stated): once stop() has called stopPolling() on a client, a retry
\* timer of that client that fires issues no request.
C3_RetryAfterStopIsNoOp ==
    [][ \A c \in Clients :
            stopCalled[c] /\ RetryFire(c) => UNCHANGED inflight ]_vars

\* C4 (as stated): at most one request of a client is in flight.
C4_OneRequestInFlight ==
    \A c \in Clients : InFlightOf(c) <= 1

\* C5 (as stated): while isRetrying is true no request of the client is
\* issued, by a tick or by quickRefresh(), until the retry timer fires.
C5_NothingIssuedWhileRetrying ==
    [][ \A c \in Clients :
            isRetrying[c] /\ retryTimers'[c] >= retryTimers[c]
                => ~Issued(c, AllOrigins) ]_vars

\* C5 (amended): while isRetrying is true, a scheduled tick (and the first
\* fetch of startPolling) issues no request; a request issued in that time
\* comes from the firing retry timer or from quickRefresh(), which does not
\* look at isRetrying.
C5_TicksSuppressedWhileRetrying ==
    [][ \A c \in Clients :
            isRetrying[c] =>
                /\ ~Issued(c, {"tick", "start"})
                /\ Issued(c, {"retry"}) => retryTimers'[c] < retryTimers[c]
                /\ Tick(c) => UNCHANGED inflight ]_vars

C5_Witness ==
    \E c \in Clients :
        /\ isRetrying[c]
        /\ timers[c] # {}
        /\ retryTimers[c] > 0
        /\ \E r \in BagToSet(inflight) : r.client = c /\ r.origin = "manual"

\* C6: retryCount stays within 0..MAX_RETRY_COUNT.
C6_RetryCountBounded ==
    \A c \in Clients : retryCount[c] \in 0..MAX_RETRY_COUNT

C6_Witness ==
    \E c \in Clients :
        /\ retryCount[c] = MAX_RETRY_COUNT
        /\ retryTimers[c] >= 2
        /\ InFlightOf(c) >= 1

\* C7: the step in which a fetch completes successfully leaves retryCount 0
\* and isRetrying false.
C7_SuccessResetsRetryState ==
    [][ \A f \in BagToSet(inflight) :
            FetchSucceeds(f) =>
                retryCount'[f.client] = 0 /\ ~isRetrying'[f.client] ]_vars

C7_Witness ==
    \E c \in Clients :
        /\ cachedData = "data"
        /\ ~isFirstAttempt[c]
        /\ retryTimers[c] > 0
        /\ streakFails[c] = 0
        /\ retryCount[c] = 0
        /\ ~isRetrying[c]

\* C8 (as stated): every step that issues a quickRefresh() request leaves
\* retryCount 0.
C8_QuickRefreshResetsRetryCount ==
    [][ \A c \in Clients :
            Issued(c, QuickRefreshOrigins) => retryCount'[c] = 0 ]_vars

\* C8 (amended): quickRefresh() leaves retryCount as it is; the rebind of a
\* reconnection (setPorts) resets it to 0, so the forced refresh of a
\* reconnection, and only that one, starts with a full retry budget.
C8_RebindResetsRetryCount ==
    [][ /\ WebviewPoll => UNCHANGED retryCount
        /\ \A out \in DetectionResults :
               ReconDetected(out) =>
                   /\ Issued(client, {"reconnect"})
                   /\ retryCount'[client] = 0 ]_vars

C8_Witness ==
    \E r \in BagToSet(inflight) :
        /\ r.origin = "reconnect"
        /\ retryCount[r.client] = 0
        /\ retryTimers[r.client] > 0

\* C9 (as stated): at most one repeating timer is armed per client, and once
\* stop() has called stopPolling() on a client no timer of it is armed.
C9_StopLeavesNoTimer ==
    \A c \in Clients :
        /\ Cardinality(timers[c]) <= 1
        /\ stopCalled[c] => timers[c] = {}

\* tryReconnect() calls past the guard and not yet returned: awaiting
\* detectPort() or awaiting the quickRefresh() that follows the rebind
ReconnectionsRunning ==
    reconDetect +
    BagCardinality([r \in {x \in BagToSet(inflight) : x.origin = "reconnect"}
                       |-> CopiesIn(r, inflight)])

\* C10: at most one reconnection is running at any time, an error delivered
\* meanwhile starts no second discovery, and isReconnecting is set exactly
\* while one is running: it is released when discovery returned none or
\* threw, and when the refresh after a successful discovery returned.
C10_SingleFlightReconnect ==
    /\ ReconnectionsRunning <= 1
    /\ isReconnecting <=> ReconnectionsRunning = 1

C10_Witness ==
    guardHit /\ isReconnecting /\ reconDetect = 1

\* this step delivered an error of client c to the error subscriber
Delivered(c) == Failed(c) /\ streakErrors'[c] = 1

\* C11 (as stated): every transport-class failure delivered to the error
\* subscriber (connection refused, connection reset, request timeout) while
\* no reconnection is running starts one, and leaves the repeating timer as
\* it is.
C11_TransportFailureStartsReconnect ==
    [][ \A f \in BagToSet(inflight), msg \in TransportFailures :
            FetchFails(f, msg) /\ Delivered(f.client) /\ ~isReconnecting
                => /\ isReconnecting' /\ reconDetect' = reconDetect + 1
                   /\ timers' = timers ]_vars

\* C12: a re-discovery that returns a result rebinds the client there is, in
\* place, to exactly the discovered secure port, fallback port and token: the
\* controller keeps the same client instance, and the repeating timer and
\* the handle the client holds are left as they are.
C12_ReconnectRebindsInPlace ==
    [][ \A out \in DetectionResults :
            ReconDetected(out) /\ client # 0 =>
                /\ client' = client
                /\ endpoint'[client] = [port |-> out.port,
                                        httpPort |-> out.httpPort,
                                        csrfToken |-> out.csrfToken]
                /\ timers' = timers
                /\ pollingInterval' = pollingInterval ]_vars

C12_Witness ==
    \E r \in BagToSet(inflight) :
        /\ r.origin = "reconnect"
        /\ endpoint[r.client].port = r.port
        /\ pollingInterval[r.client] \in timers[r.client]
        /\ \E q \in BagToSet(inflight) :
               q.client = r.client /\ q.port # r.port

\* C13: when the re-discovery of a reconnection returns nothing or throws,
\* the secure port, the fallback port and the token of the client stay as
\* they are and the reconnection issues no request.
C13_FailedRediscoveryChangesNothing ==
    [][ \A out \in DetectionOutcomes \ DetectionResults :
            ReconDetected(out) =>
                /\ endpoint' = endpoint
                /\ inflight' = inflight ]_vars

C13_Witness ==
    /\ lastStep.what = "no rediscovery"
    /\ client # 0
    /\ endpoint[client] # NoEndpoint
    /\ ~isReconnecting

\* the secure port, fallback port and token of the processes discovery finds
Endpoints ==
    { [port |-> r.port, httpPort |-> r.httpPort, csrfToken |-> r.csrfToken] :
          r \in DetectionResults }

\* C14: every request in flight, in its HTTPS attempt and in its plain-HTTP
\* attempt alike, carries the secure port, fallback port and token of one
\* endpoint, the one the client had when the fetch started: no request mixes
\* values of two endpoints, and a rebind leaves the requests in flight as
\* they are.
C14_RequestUsesOneEndpoint ==
    /\ [](\A f \in BagToSet(inflight) :
              [port |-> f.port, httpPort |-> f.httpPort,
               csrfToken |-> f.csrfToken] \in Endpoints)
    /\ [][ /\ \A r \in BagToSet(inflight') :
                  CopiesIn(r, inflight') > CopiesIn(r, inflight)
                  /\ r.attempt = "https" =>
                      [port |-> r.port, httpPort |-> r.httpPort,
                       csrfToken |-> r.csrfToken] = endpoint'[r.client]
           /\ \A out \in DetectionResults :
                  ReconDetected(out) =>
                      \A f \in BagToSet(inflight) :
                          CopiesIn(f, inflight') >= CopiesIn(f, inflight) ]_vars

C14_Witness ==
    \E f \in BagToSet(inflight) :
        /\ f.attempt = "http"
        /\ f.port # endpoint[f.client].port
        /\ targetPort(f) # endpoint[f.client].httpPort

\* the errors with the protocol-mismatch (wrong version number) signature
MismatchSignatures ==
    { {"write", "code=EPROTO"}, {"SSL routines", "WRONG_VERSION_NUMBER"} }

\* the plain-HTTP attempt of request f
HttpAttemptOf(f) == [f EXCEPT !.attempt = "http"]

\* C17: an HTTPS attempt that fails with the protocol-mismatch signature does
\* not fail the request: it is followed by one plain-HTTP attempt of the same
\* request on its fallback port, which leaves the retry state alone; a
\* failure of that attempt, and every other failure of an HTTPS attempt,
\* fails the request with no further attempt; and every request that is
\* issued starts with HTTPS on the secure port, whatever requests before it
\* fell back.
C17_FallbackOnlyOnProtocolMismatch ==
    [][ /\ \A f \in BagToSet(inflight) :
               CopiesIn(f, inflight') < CopiesIn(f, inflight) =>
                   /\ f.attempt = "https" =>
                          \A msg \in MismatchSignatures :
                              /\ ~FetchFails(f, msg)
                              /\ HttpFallback(f, msg) =>
                                     /\ inflight' =
                                            (inflight (-) SetToBag({f}))
                                                (+) SetToBag({HttpAttemptOf(f)})
                                     /\ targetPort(HttpAttemptOf(f)) = f.httpPort
                                     /\ UNCHANGED << retryCount, isRetrying,
                                                     retryTimers, cachedData >>
                   /\ f.attempt = "https" =>
                          \A msg \in ErrorMessages \ MismatchSignatures :
                              ~HttpFallback(f, msg)
                   /\ f.attempt = "http" =>
                          \A msg \in ErrorMessages : ~HttpFallback(f, msg)
        /\ \A r \in BagToSet(inflight') :
               CopiesIn(r, inflight') > CopiesIn(r, inflight) =>
                   \/ r.attempt = "https" /\ targetPort(r) = r.port
                   \/ \E f \in BagToSet(inflight) :
                          /\ f.attempt = "https" /\ r = HttpAttemptOf(f)
                          /\ CopiesIn(f, inflight') < CopiesIn(f, inflight)
      ]_vars

C17_Witness ==
    \E f, g \in BagToSet(inflight) :
        /\ f.attempt = "http" /\ targetPort(f) = f.httpPort
        /\ g.attempt = "https" /\ g.client = f.client
        /\ g.origin \in {"tick", "retry"}

\* polling of the client has been started and stop() has not been called
PollingRuns ==
    client # 0 /\ timers[client] # {} /\ ~stopCalled[client]

\* C15: once the process is stable and answers the requests sent to the
\* endpoint the client has, polling that runs publishes a snapshot and
\* leaves retryCount 0, from every state, those with a retry pending and
\* those just past the exhaustion of the retries included (unless stop() is
\* called meanwhile).
C15_PollingRecovers ==
    (Final /\ PollingRuns /\ endpoint[client].port = server)
        ~> \/ lastStep.what = "published" /\ retryCount[client] = 0
           \/ client # 0 /\ stopCalled[client]

C15_Witness ==
    /\ Final /\ PollingRuns /\ endpoint[client].port = server
    /\ lastStep.what = "published" /\ retryCount[client] = 0
    /\ streakFails[client] = 0
    /\ retryTimers[client] > 0

\* C16: when the process has restarted on a new port with a new token, so
\* that the requests to the endpoint the client has are refused, and
\* discovery finds the new endpoint, polling that runs leads to the client
\* rebound to the new endpoint and to a snapshot published from a request
\* sent there (unless stop() is called meanwhile).
C16_ReconnectsAfterRestart ==
    (Final /\ PollingRuns /\ endpoint[client].port # server)
        ~> \/ /\ client # 0
              /\ endpoint[client].port = server
              /\ lastStep = [what |-> "published", port |-> server]
           \/ client # 0 /\ stopCalled[client]

C16_Witness ==
    /\ Final /\ PollingRuns /\ endpoint[client].port = server
    /\ lastStep = [what |-> "published", port |-> server]
    /\ \E q \in BagToSet(inflight) : q.port # server

\* an attempt in which the record, the listening ports and the probe succeeded
Succeeded(o) == o.error = {} /\ o.record /\ o.ports /\ o.probe

\* C18: detectProcessInfo() never throws. Whatever an attempt meets (an
\* error or timeout of the listing command, no record, no listening ports,
\* no working port), a call that is over has returned null or a result; null
\* only when maxRetries attempts are consumed, each a failure; a result
\* only from an attempt in which the record, the listening ports and the
\* probe all succeeded.
C18_DetectNeverThrows ==
    /\ detector.result # "threw"
    /\ detector.pc = "idle" /\ detector.calls > 0 =>
           detector.result \in {"null", "record"}
    /\ detector.result = "null" =>
           /\ detector.attempt = maxRetries + 1
           /\ detector.listings >= maxRetries
           /\ ~Succeeded(detector.lastAttempt)
    /\ detector.result = "record" =>
           /\ detector.attempt <= maxRetries
           /\ Succeeded(detector.lastAttempt)

C18_Witness ==
    /\ detector.result = "null"
    /\ detector.lastAttempt.error = {"Command failed"}
    /\ detector.delays = maxRetries - 1

\* C19: the step that switches the Windows listing tool leaves the attempt
\* counter as it is and goes on with the next try at once, no retryDelay
\* waited; so a call whose first attempt switched the tool and then
\* succeeded returns its result with one attempt consumed, after two runs of
\* the listing command.
C19_SwitchRetriesSameAttempt ==
    /\ [](detector.result = "record" /\ detector.listings = 2
              /\ detector.delays = 0 => detector.attempt = 1)
    /\ [][ detector'.switches > detector.switches =>
               /\ detector'.attempt = detector.attempt
               /\ detector'.pc = "try"
               /\ detector'.delays = detector.delays
               /\ detector'.listings = detector.listings + 1 ]_vars

C19_Witness ==
    /\ detector.result = "record"
    /\ detector.switches = 1 /\ detector.usePowerShell
    /\ detector.listings = 2
    /\ detector.delays = 0
    /\ detector.attempt = 1

\* the listing command is unknown to the shell
ToolUnavailable ==
    { {"is not recognized"}, {"zh: not an internal or external command"} }

\* this step is an attempt on Windows whose listing command was unknown
UnavailableOnWindows ==
    /\ detector.platform = "Windows"
    /\ detector'.listings = detector.listings + 1
    /\ detector'.lastAttempt.error \in ToolUnavailable

\* C20 (as stated): on Windows, when PowerShell is the tool in use and is
\* unavailable, the step switches to WMIC and goes on with the same attempt.
C20_DemotesToWmic ==
    [][ UnavailableOnWindows /\ detector.usePowerShell =>
            /\ ~detector'.usePowerShell
            /\ detector'.attempt = detector.attempt
            /\ detector'.pc = "try" ]_vars

\* C20 (amended): the switch goes from WMIC to PowerShell only. On Windows,
\* when WMIC is the tool in use and is unavailable, detect switches to the
\* PowerShell listing and retries the same attempt at once, consuming none;
\* when PowerShell is the tool in use and is unavailable, the tool stays
\* PowerShell and the attempt is consumed like any failed one (retryDelay,
\* or null after the last attempt). No step goes from PowerShell to WMIC.
C20_PromotesToPowerShell ==
    [][ /\ UnavailableOnWindows /\ ~detector.usePowerShell =>
               /\ detector'.usePowerShell
               /\ detector'.attempt = detector.attempt
               /\ detector'.pc = "try"
               /\ detector'.delays = detector.delays
        /\ UnavailableOnWindows /\ detector.usePowerShell =>
               /\ detector'.switches = detector.switches
               /\ IF detector.attempt < maxRetries
                  THEN detector'.pc = "delay"
                       /\ detector'.attempt = detector.attempt
                  ELSE detector'.result = "null"
        /\ detector.usePowerShell => detector'.usePowerShell ]_vars

C20_Witness ==
    /\ detector.platform = "Windows"
    /\ detector.usePowerShell /\ detector.switches = 0
    /\ detector.result = "null"
    /\ detector.lastAttempt.error \in ToolUnavailable
    /\ detector.listings = maxRetries

\* this step is an attempt on Unix that found a record and so went on to
\* getProcessListeningPorts()
UnixPortListing ==
    /\ detector.platform # "Windows"
    /\ detector'.listings = detector.listings + 1
    /\ detector'.lastAttempt.record

\* this step showed the error message of ensurePortCommandAvailable()
MessageShown == detector'.messages > detector.messages

\* C21 (as stated): when no port-listing utility is installed on Unix, the
\* message is shown at most once in a call of detect, and the step that
\* shows it ends the call: no further attempt is made.
C21_ToolUnavailableNotRetried ==
    /\ [](detector.messages <= 1)
    /\ [][ MessageShown => detector'.pc = "idle" ]_vars

\* C28: on Unix, ensurePortCommandAvailable() with no utility pinned runs
\* `which` for lsof, ss, netstat in this order and pins the first that
\* exists; with a utility pinned it runs no `which` and the pinned utility
\* never changes; it fails (message and throw) exactly when none is pinned
\* and none of the three exists.
C28_PinsFirstAvailable ==
    [][ LET installed == detector'.lastAttempt.installed
        IN /\ detector.availablePortCommand # "null" =>
                  /\ detector'.availablePortCommand =
                         detector.availablePortCommand
                  /\ UnixPortListing => detector'.whichRuns = 0
                  /\ ~MessageShown
           /\ UnixPortListing /\ detector.availablePortCommand = "null" =>
                  /\ detector'.availablePortCommand =
                         IF "lsof" \in installed THEN "lsof"
                         ELSE IF "ss" \in installed THEN "ss"
                         ELSE IF "netstat" \in installed THEN "netstat"
                         ELSE "null"
                  /\ detector'.whichRuns =
                         IF "lsof" \in installed THEN 1
                         ELSE IF "ss" \in installed THEN 2
                         ELSE 3
                  /\ MessageShown <=> installed = {}
           /\ MessageShown => UnixPortListing
      ]_vars

C28_Witness ==
    /\ detector.availablePortCommand = "ss"
    /\ detector.calls = 2
    /\ detector.lastAttempt.record
    /\ "lsof" \in detector.lastAttempt.installed
    /\ detector.whichRuns = 0

\* C22: findWorkingPort() probes the candidates one at a time in the order
\* of the list, which is ascending, and returns the first port whose probe
\* answers 200, the smallest working port; the probes made are the ports
\* up to that one and none after it; it returns none exactly when no
\* candidate's probe answers 200 (another status, an error, a timeout).
C22_FirstWorkingPort ==
    call.fn = "findWorkingPort" /\ call.done =>
        LET ports == call.arg.ports
            working == { i \in DOMAIN ports : call.arg.probes[ports[i]] = "200" }
        IN /\ working # {} =>
                  /\ call.ret.port = ports[Min(working)]
                  /\ call.ret.port = Min({ ports[i] : i \in working })
                  /\ call.ret.probed = SubSeq(ports, 1, Min(working))
           /\ working = {} => call.ret.probed = ports
           /\ call.ret.port = 0 <=> working = {}

C22_Witness ==
    /\ call.fn = "findWorkingPort" /\ call.done
    /\ call.arg.ports = << 7, 10, 33 >>
    /\ call.arg.probes[7] = "timeout"
    /\ call.arg.probes[10] = "200"
    /\ call.arg.probes[33] = "200"
    /\ call.ret = [port |-> 10, probed |-> << 7, 10 >>]

\* the records of a table that are of the application and carry a token
Valid(table) ==
    { i \in DOMAIN table : table[i].app /\ table[i].token # "" }

\* C25 (as stated): with the ps, the JSON and the flat-text listing alike,
\* parseProcessInfo() returns a record exactly when the listing has a
\* record that is of the application and carries a token (no other record
\* hides it), and the record returned is such a one, its token not empty.
C25_RecordIffValidListed ==
    call.fn = "parseProcessInfo" /\ call.done =>
        LET table == call.arg.table
        IN /\ call.ret # NoRecord <=> Valid(table) # {}
           /\ call.ret # NoRecord =>
                  /\ call.ret.csrfToken # ""
                  /\ \E i \in Valid(table) : call.ret = processInfo(table[i])

\* C26: on Unix, of several valid candidates parseProcessInfo() returns the
\* first whose parent pid is the caller's own pid, and with no such
\* candidate the first valid one in the order of the listing.
C26_PrefersOwnChild ==
    call.fn = "parseProcessInfo" /\ call.done
        /\ call.arg.strategy = "Unix" =>
        LET table == call.arg.table
            children == { i \in Valid(table) : table[i].ppid = OwnPid }
        IN Valid(table) # {} =>
               call.ret = processInfo(table[IF children # {}
                                            THEN Min(children)
                                            ELSE Min(Valid(table))])

C26_Witness ==
    /\ call.fn = "parseProcessInfo" /\ call.done
    /\ call.arg.strategy = "Unix"
    /\ Valid(call.arg.table) = {1, 2, 3}
    /\ call.arg.table[1].ppid # OwnPid
    /\ call.arg.table[2].ppid = OwnPid
    /\ call.arg.table[3].ppid = OwnPid
    /\ call.ret.pid = call.arg.table[2].pid

\* the ports a listing shows as listening on the loopback address
Listed(stdout) ==
    { stdout.lines[i].port :
          i \in { j \in DOMAIN stdout.lines :
                     /\ stdout.lines[j].addr = "127.0.0.1"
                     /\ stdout.lines[j].state = "LISTEN" } }

C30_ExhaustedIffNoFraction ==
    call.fn = "parseModelQuota" /\ call.done =>
        LET rf == call.arg.remainingFraction
        IN /\ call.ret.isExhausted <=> (~rf.has \/ rf.quarters = 0)
           /\ call.arg.resetTime.kind \in {"absent", "infinite"} =>
                  /\ call.ret.timeUntilReset = MAX_DATE
                  /\ call.ret.resetTime = MAX_DATE

C30_Witness ==
    /\ call.fn = "parseModelQuota" /\ call.done
    /\ call.arg.resetTime.kind = "infinite"
    /\ call.arg.remainingFraction = [has |-> TRUE, quarters |-> 1]
    /\ ~call.ret.isExhausted
    /\ call.ret.timeUntilReset = MAX_DATE

\* this step is the response to f arriving with a body that carries a code
RespondsWithCode(f, response) ==
    /\ CopiesIn(f, inflight') < CopiesIn(f, inflight)
    /\ response.code.type \notin {"undefined", "null"}
    /\ Responds(f, response)

\* this step published a snapshot for client c
Published(c) == streakFails'[c] = 0 /\ lastStep'.what = "published"

\* this step is a failed fetch of client c that counts toward the retry
\* budget, its error naming the code and the message of the response
CountedFailure(c, response) ==
    /\ Failed(c)
    /\ lastStep'.what = "invalid code"
    /\ IF retryCount[c] < MAX_RETRY_COUNT
       THEN retryCount'[c] = retryCount[c] + 1 /\ isRetrying'[c]
       ELSE retryCount'[c] = 0 /\ Delivered(c)
    /\ LET error == invalidCodeError(getInvalidCodeInfo(response))
       IN /\ Includes(error, response.code.text)
          /\ Includes(error, response.message)

\* the whitelist as the specification gives it
StatedOkValues ==
    { [type |-> "number", text |-> "0"] }
        \cup [type : {"string"}, text : {"0", "OK", "ok", "success", "SUCCESS"}]

\* C29 (as stated): a 200 response that carries a code is accepted exactly
\* when the code is one of 0, "0", "OK", "ok", "success", "SUCCESS"; with
\* any other code the fetch is a failure that counts toward the retry
\* budget.
C29_AcceptedIffStatedOk ==
    [][ \A f \in BagToSet(inflight), response \in Responses :
            RespondsWithCode(f, response) =>
                IF response.code \in StatedOkValues
                THEN Published(f.client)
                ELSE CountedFailure(f.client, response) ]_vars

\* C29 (amended): a 200 response that carries a code (one that is neither
\* absent nor null) is accepted exactly when the code is one of 0, "0",
\* "OK", "Ok", "ok", "success", "SUCCESS", compared by type and value; with
\* any other code the fetch is a failure whose error names the code and the
\* message and which counts toward the retry budget.
C29_AcceptedIffOkValue ==
    [][ \A f \in BagToSet(inflight), response \in Responses :
            RespondsWithCode(f, response) =>
                IF response.code \in
                       StatedOkValues \cup {[type |-> "string", text |-> "Ok"]}
                THEN Published(f.client)
                ELSE CountedFailure(f.client, response) ]_vars

C29_Witness ==
    \E c \in Clients :
        /\ lastStep.what = "invalid code"
        /\ retryCount[c] = MAX_RETRY_COUNT
        /\ isRetrying[c]
        /\ streakFails[c] = MAX_RETRY_COUNT

\* detectPort() has returned a result
ResultReturned == detector.pc = "idle" /\ detector.result = "record"

\* the record parseProcessInfo() selects from the process listing of the
\* machine, with the listing tool in use
SelectedProcess ==
    parseProcessInfo(Strategy(detector),
                     getProcessListCommand(Strategy(detector), os.table))

\* the ports the process of a pid listens on
ListeningPortsOf(pid) == { s.port : s \in { x \in Range(os.sockets) : x.pid = pid } }

\* C23: whenever detectPort() returns a result, its port is one of the
\* listening ports of the selected process and answered the probe with 200,
\* its httpPort is the --extension_server_port of that process and its
\* csrfToken the --csrf_token of that process. Violated: with netstat
\* (grep ${pid}) and on Windows (findstr "${pid}") the port command also
\* prints the sockets of a process whose pid contains the digits of the
\* selected pid, and the lowest of these ports that answers 200 is returned.
C23_EndpointOfSelectedProcess ==
    ResultReturned =>
        /\ detector.info.port \in ListeningPortsOf(SelectedProcess.pid)
        /\ os.probes[detector.info.port] = "200"
        /\ detector.info.httpPort = SelectedProcess.extensionPort
        /\ detector.info.csrfToken = SelectedProcess.csrfToken

\* C24: the second of two detectPort() calls on a machine that stays as it
\* is returns what the first returned, null or the same result
C24_SecondCallReturnsTheSame ==
    (detector.pc = "idle" /\ detector.calls >= 2) =>
        /\ detector.result = detector.prev.result
        /\ detector.info = detector.prev.info

\* a second call has returned a result on Windows, the first call having
\* switched from WMIC to PowerShell
C24_Witness ==
    /\ ResultReturned
    /\ detector.calls = 2
    /\ detector.prev.result = "record"
    /\ detector.platform = "Windows"
    /\ detector.switches = 1

\* what a listener registered while there was no data has been called
\* with, and what every listener has last been called with once there is
\* data
LastHanded == IF cachedData = "null" THEN "none" ELSE cachedData

\* C31: a fetch that succeeds with a snapshot sets cachedData to the data
\* of that snapshot and calls every registered listener with it, and at
\* any time what a listener was last called with is the current cachedData
C31_LatestSnapshotOnly ==
    /\ [](\A i \in DOMAIN updateListeners :
              updateListeners[i].handed = LastHanded)
    /\ [][\A f \in BagToSet(inflight), snapshot \in Snapshots :
              Resolves(f, snapshot, {}) =>
                  /\ cachedData' = transformSnapshotToQuotaData(snapshot)
                  /\ \A i \in DOMAIN updateListeners' :
                         updateListeners'[i].handed = cachedData']_vars

\* data has replaced other data, with two listeners of which the first
\* throws
C31_Witness ==
    /\ lastStep.what = "published"
    /\ cachedData = "data B"
    /\ Len(updateListeners) = 2
    /\ updateListeners[1].throws
    /\ updateListeners[2].handed = "data B"

\* C34: when the callback registered with onQuotaUpdate() throws while a
\* successful fetch is published, the fetch still counts as a success:
\* retryCount stays 0, isRetrying false, no retry timer is set and the error
\* subscriber is not called. Violated: the callback is called inside the
\* try of doFetchQuota(), whose catch block counts a failure.
C34_SubscriberExceptionContained ==
    [][lastStep'.what = "subscriber threw" =>
           \A c \in Clients :
               /\ retryCount'[c] = 0
               /\ ~isRetrying'[c]
               /\ retryTimers'[c] = retryTimers[c]
               /\ streakErrors'[c] = 0]_vars

\* this step is an attempt in which the listing command ran and that
\* failed all the same: no process found, no listening ports, or no port
\* that answers
OrdinaryFailure ==
    /\ detector'.listings = detector.listings + 1
    /\ detector'.lastAttempt.error = {}
    /\ ~Succeeded(detector'.lastAttempt)

\* C32: an attempt that fails with process not found, no listening ports or
\* no working port never switches the Windows listing tool and consumes
\* the attempt: the retryDelay is waited before the next one, or the call
\* returns null if it was the last. Violated: the text of process not
\* found, "language_server process not found", has the "not found" the
\* catch block takes for a missing tool, so on Windows with WMIC in use the
\* tool is switched and the attempt repeated at once.
C32_OrdinaryFailureConsumesAttempt ==
    [][OrdinaryFailure =>
           /\ detector'.switches = detector.switches
           /\ detector'.usePowerShell = detector.usePowerShell
           /\ IF detector.attempt < maxRetries
              THEN detector'.pc = "delay" /\ detector'.attempt = detector.attempt
              ELSE detector'.pc = "idle" /\ detector'.result = "null"]_vars

\* C33: every call of detectProcessInfo() returns; the tool is switched at
\* most once in the life of a detector, and within one call the listing
\* command runs at most maxRetries + 1 times and at most maxRetries - 1
\* delays are waited.
C33_TerminatesWithinBounds ==
    /\ [](/\ detector.switches <= 1
          /\ detector.listings <= maxRetries + 1
          /\ detector.delays <= maxRetries - 1)
    /\ (detector.pc # "idle" ~> detector.pc = "idle")

\* a call that switched the tool and failed in every attempt has returned
\* null: maxRetries + 1 listings, maxRetries - 1 delays
C33_Witness ==
    /\ detector.pc = "idle"
    /\ detector.result = "null"
    /\ detector.switches = 1
    /\ detector.listings = maxRetries + 1
    /\ detector.delays = maxRetries - 1

\* C35: at most one single-shot retry timer of a client is pending.
\* Violated: quickRefresh() issues its request whatever is in flight, so
\* two requests of one client can fail one after the other, each catch
\* block setting a timer of its own.
C35_OneRetryTimer ==
    \A c \in Clients : retryTimers[c] <= 1

\* C36: while isRetrying is set a retry timer is pending, whose callback
\* clears it.
C36_RetryingHasTimer ==
    \A c \in Clients : isRetrying[c] => retryTimers[c] > 0

\* a request failed, the flag is set and the timer that clears it pending
C36_Witness ==
    \E c \in Clients :
        /\ isRetrying[c]
        /\ retryTimers[c] = 1
        /\ retryCount[c] = 1
        /\ timers[c] # {}

\* C37: when stopPolling() was called on a client while its startPolling()
\* was awaiting the first fetch, that fetch coming back arms no repeating
\* timer. Violated: startPolling() goes on after its await with
\* setInterval whatever happened meanwhile.
C37_StopDuringFirstFetchHalts ==
    [][\A f \in BagToSet(inflight) :
           (/\ f.origin = "start"
            /\ stopCalled[f.client]
            /\ ~BagIn(f, inflight')) => timers'[f.client] = {}]_vars

\* C40: no plain-HTTP attempt is sent to port 0. Violated: for a process
\* with no declared port detectPort() gives httpPort 0, which is not
\* undefined, so the constructor and setPorts() keep it (0 ?? port is 0)
\* and makeRequest() falls back to doRequest(false, 0).
C40_NoFallbackToPortZero ==
    \A f \in BagToSet(inflight) : f.attempt = "http" => targetPort(f) # 0

\* C38: a session creates at most one client and has at most one repeating
\* timer armed, the panel being opened during the initialize() of activation
\* included; and a stop() that finds no startPolling() awaiting its first
\* fetch leaves no timer armed. Violated: isInitialized is set only at the
\* end of initialize(), so a call that starts while another awaits
\* detectPort() passes the guard, and each creates a client and arms its
\* timer; stop() knows the last client only.
C38_OverlapCreatesNoSecondClient ==
    /\ [](/\ client <= 1
          /\ \A c, d \in BothClients :
                 timers[c] # {} /\ timers[d] # {} => c = d)
    /\ [][(/\ panel /\ ~panel'
           /\ \A f \in BagToSet(inflight) : f.origin # "start") =>
              \A c \in BothClients : timers'[c] = {}]_vars

\* C39: the initialize() call of a panel opened on an initialized session
\* leaves the polling schedule armed: still armed, or armed again after the
\* stop() of an earlier panel. Violated: stop() clears the interval and
\* leaves isInitialized set, so every later initialize() returns at its
\* guard and startPolling() is never called again.
C39_InitializeLeavesScheduleArmed ==
    [][(isInitialized /\ ~panel /\ panel') => timers'[client] # {}]_vars
====
